---- MODULE Spec2Model ----
(***************************************************************************)
(* A model of the Inconsistent Replication library:                        *)
(*   - the quorum engine (src/src/utils.rs),                               *)
(*   - the replica handlers (src/src/server/mod.rs) over the record store  *)
(*     (src/src/io/test_utils/fake_storage.rs, mock_record_store.rs),      *)
(*   - start and restart of a replica (fake_network.rs, SwitchableNode),   *)
(*   - the fake network and the client's calls over it                     *)
(*     (src/src/io/test_utils/fake_network.rs, src/src/client/mod.rs),     *)
(*   - the merge of the records of the peers during a view change          *)
(*     (process_incoming_operations, merge, resolve_record_merge).         *)
(* Nodes and messages are small integers; a view is a record               *)
(* [view, members, state] as in server/mod.rs.                             *)
(***************************************************************************)
EXTENDS Integers, Sequences, FiniteSets, TLC

\* ------------------------------------------------------------------ bounds
\* Number of distinct votes fed to one find_quorum call.
MaxVotes == 5

\* Nodes that may answer a client (node 4 is a member that never answers).
Nodes == 1..3
\* Messages, ordered as integers (IRMessage: Ord).
Msgs == 1..3

\* ------------------------------------------------------------------ values
\* Option<T> / Result<T, ()>: the empty sequence is None / Err(()), <<x>> is Some(x) / Ok(x).
None == <<>>
Some(x) == <<x>>
IsSome(o) == Len(o) > 0
Unwrap(o) == o[1]

ViewStates == {"Normal", "ViewChanging", "Recovery"}

View(num, members, state) == [view |-> num, members |-> members, state |-> state]

\* The views votes are drawn from: a 4-member view, a 3-member view with a
\* higher number (utils.rs test_quorum: view_4_1_normal, view_3_2_normal) and a
\* 2-member view with a still higher number.
view_4_1_normal == View(1, <<1, 2, 3, 4>>, "Normal")
view_3_2_normal == View(2, <<1, 2, 3>>, "Normal")
view_2_3_normal == View(3, <<1, 2>>, "Normal")
VoteViews == {view_4_1_normal, view_3_2_normal, view_2_3_normal}

Range(s) == {s[i] : i \in 1..Len(s)}

\* ------------------------------------------------------------------ quorum sizes
\* ((nodes - 1) as f32 / 2.0).ceil()
CeilHalf(x) == (x + 1) \div 2
\* (x as f32 / 2 + 1).floor()
FloorHalfPlusOne(x) == (x \div 2) + 1

\* f rounding (nodes - 1) / 2 down.
f_Floor(nodes) == IF nodes < 3 THEN None ELSE Some((nodes - 1) \div 2)

f(nodes) == IF nodes < 3 THEN None ELSE Some(CeilHalf(nodes - 1))

\* fast_quorum without the division by 2.
fast_quorum_NoHalving(nodes) ==
    IF IsSome(f(nodes)) THEN Some(3 * Unwrap(f(nodes)) + 1 + 1) ELSE None

fast_quorum(nodes) ==
    IF IsSome(f(nodes)) THEN Some(FloorHalfPlusOne(3 * Unwrap(f(nodes)) + 1)) ELSE None

slow_quorum(nodes) ==
    IF IsSome(f(nodes)) THEN Some(Unwrap(f(nodes)) + 1) ELSE None

\* The size functions of src/client.rs, on usize: (nodes - 1) / 2, 3 * f / 2 + 1
\* and f + 1, the divisions rounding down. They are called with nodes >= 1.
client_f(nodes) == (nodes - 1) \div 2

client_fast_quorum(nodes) == ((3 * client_f(nodes)) \div 2) + 1

client_slow_quorum(nodes) == client_f(nodes) + 1

\* ------------------------------------------------------------------ quorum engine
\* A BTreeMap with no key.
EmptyMap == [x \in {} |-> {}]

\* A BTreeSet collected into a Vec: its elements in ascending order.
RECURSIVE SortedVec(_)
SortedVec(S) ==
    IF S = {} THEN <<>>
    ELSE LET lo == CHOOSE x \in S : \A y \in S : x <= y
         IN <<lo>> \o SortedVec(S \ {lo})

QuorumVote(node, message, view) == [node |-> node, message |-> message, view |-> view]

\* The locals of find_quorum before the first item of the iterator.
EmptyTally == [votes |-> EmptyMap, highest_view |-> None, all_nodes |-> {}]

\* The tally loop counting only the first vote of every node.
TallyVote_FirstVoteOnly(t, item) ==
    LET view_entry == IF item.view \in DOMAIN t.votes THEN t.votes[item.view] ELSE EmptyMap
        highest == IF ~IsSome(t.highest_view) \/ item.view.view > Unwrap(t.highest_view).view
                   THEN Some(item.view)
                   ELSE t.highest_view
        message_entry == IF item.message \in DOMAIN view_entry
                         THEN view_entry[item.message]
                         ELSE {}
        counted == item.node \notin t.all_nodes
        new_entry == IF counted THEN message_entry \cup {item.node} ELSE message_entry
    IN [votes |-> (item.view :> ((item.message :> new_entry) @@ view_entry)) @@ t.votes,
        highest_view |-> highest,
        all_nodes |-> IF counted THEN t.all_nodes \cup {item.node} ELSE t.all_nodes]

\* The tally loop with highest_view set to the view of every item in turn,
\* whatever its number.
TallyVote_LatestView(t, item) ==
    LET view_entry == IF item.view \in DOMAIN t.votes THEN t.votes[item.view] ELSE EmptyMap
        highest == Some(item.view)
        message_entry == IF item.message \in DOMAIN view_entry
                         THEN view_entry[item.message]
                         ELSE {}
        counted == item.node \notin t.all_nodes \/ Some(item.view) = highest
        new_entry == IF counted THEN message_entry \cup {item.node} ELSE message_entry
    IN [votes |-> (item.view :> ((item.message :> new_entry) @@ view_entry)) @@ t.votes,
        highest_view |-> highest,
        all_nodes |-> IF counted THEN t.all_nodes \cup {item.node} ELSE t.all_nodes]

\* One iteration of the tally loop of find_quorum.
TallyVote(t, item) ==
    LET view_entry == IF item.view \in DOMAIN t.votes THEN t.votes[item.view] ELSE EmptyMap
        highest == IF ~IsSome(t.highest_view) \/ item.view.view > Unwrap(t.highest_view).view
                   THEN Some(item.view)
                   ELSE t.highest_view
        message_entry == IF item.message \in DOMAIN view_entry
                         THEN view_entry[item.message]
                         ELSE {}
        counted == item.node \notin t.all_nodes \/ Some(item.view) = highest
        new_entry == IF counted THEN message_entry \cup {item.node} ELSE message_entry
    IN [votes |-> (item.view :> ((item.message :> new_entry) @@ view_entry)) @@ t.votes,
        highest_view |-> highest,
        all_nodes |-> IF counted THEN t.all_nodes \cup {item.node} ELSE t.all_nodes]

\* Err(None)
ErrNone == [kind |-> "ErrNone"]
\* An unwrap() of Err(()) in find_quorum: the call panics.
Panicked == [kind |-> "Panic"]

NoQuorum(view, votes) ==
    [kind |-> "NoQuorum", view |-> view,
     votes |-> [m \in DOMAIN votes |-> SortedVec(votes[m])]]

Quorum(message, nodes, opposing, view, type) ==
    [kind |-> "Quorum", count |-> Cardinality(nodes), message |-> message,
     nodes_with |-> SortedVec(nodes), nodes_without |-> SortedVec(opposing),
     view |-> view, quorum_type |-> type]

\* Iterator::max_by over the (message, voters) pairs in key order: the last of
\* the pairs with the largest voter set.
MaxByLen(tally) ==
    CHOOSE m \in DOMAIN tally :
        \A o \in DOMAIN tally :
            \/ Cardinality(tally[o]) < Cardinality(tally[m])
            \/ Cardinality(tally[o]) = Cardinality(tally[m]) /\ o <= m

\* The comparison against the vote count with the fast quorum granted at the
\* size of the normal quorum.
CheckQuorumAgainstView_FastAtSlow(t, hv, tally, msg) ==
    LET nodes == tally[msg]
        n == Len(hv.members)
        opposing == (t.all_nodes \cup Range(hv.members)) \ nodes
    IN IF ~IsSome(fast_quorum(n)) THEN Panicked
       ELSE IF Cardinality(nodes) >= Unwrap(slow_quorum(n))
            THEN Quorum(msg, nodes, opposing, hv, "FastQuorum")
       ELSE NoQuorum(hv, tally)

\* fast_quorum(..).unwrap() / slow_quorum(..).unwrap() and the comparison against
\* the vote count.
CheckQuorumAgainstView(t, hv, tally, msg) ==
    LET nodes == tally[msg]
        n == Len(hv.members)
        opposing == (t.all_nodes \cup Range(hv.members)) \ nodes
    IN IF ~IsSome(fast_quorum(n)) THEN Panicked
       ELSE IF Cardinality(nodes) >= Unwrap(fast_quorum(n))
            THEN Quorum(msg, nodes, opposing, hv, "FastQuorum")
       ELSE IF Cardinality(nodes) >= Unwrap(slow_quorum(n))
            THEN Quorum(msg, nodes, opposing, hv, "NormalQuorum")
       ELSE NoQuorum(hv, tally)

\* The messages kept by the many_quorums filter.
ManyQuorums(tally, msg) ==
    {m \in DOMAIN tally : Cardinality(tally[m]) >= Cardinality(tally[msg])}

\* find_quorum after the tally loop.
QuorumOfTally(t) ==
    IF ~IsSome(t.highest_view) THEN ErrNone
    ELSE LET hv == Unwrap(t.highest_view) IN
         IF hv \notin DOMAIN t.votes THEN ErrNone
         ELSE LET tally == t.votes[hv] IN
              IF DOMAIN tally = {} THEN ErrNone
              ELSE LET msg == MaxByLen(tally)
                       many == ManyQuorums(tally, msg)
                   IN IF Cardinality(many) > 1
                      THEN NoQuorum(hv, [m \in many |-> tally[m]])
                      ELSE CheckQuorumAgainstView(t, hv, tally, msg)

RECURSIVE TallyAll(_, _)
TallyAll(t, iterable) ==
    IF iterable = <<>> THEN t
    ELSE TallyAll(TallyVote(t, Head(iterable)), Tail(iterable))

find_quorum(iterable) == QuorumOfTally(TallyAll(EmptyTally, iterable))

\* ------------------------------------------------------------------ record store
\* Number of the highest view a replica reaches.
MaxViewNumber == 1

\* The slots (client, sequence) of the operations sent to the replica.
Clients == {0}
OperationSequences == 0..1
\* Messages of the operations sent to the replica.
OpMsgs == 1..2
\* The members of every view of the replica (FakeIRStorage::new(members, ..)).
Members == <<1, 2, 3>>

RecordKey(client, sequence, view) == [client |-> client, sequence |-> sequence, view |-> view]

RecordValue(state, operation_type, operation) ==
    [state |-> state, operation_type |-> operation_type, operation |-> operation]

\* The IROperation variant find_entry builds from a RecordValue.
IROperation(v) ==
    IF v.operation_type = "Consistent"
    THEN (IF v.state = "Tentative" THEN "ConsistentPropose" ELSE "ConsistentFinalize")
    ELSE (IF v.state = "Tentative" THEN "InconsistentPropose" ELSE "InconsistentFinalize")

FullState(k, v) == [ir_operation |-> IROperation(v), message |-> v.operation, view |-> k.view]

\* The entries find_entry collects: all those of (client, sequence), of any view.
FoundEntries(recs, client, operation) ==
    {FullState(k, recs[k]) : k \in {x \in DOMAIN recs : x.client = client /\ x.sequence = operation}}

\* find_entry: assert!(found.len() <= 1) fails ("Panic"), or the entry, or None.
find_entry(recs, client, operation) ==
    LET found == FoundEntries(recs, client, operation)
    IN IF Cardinality(found) > 1 THEN [status |-> "Panic", entry |-> None]
       ELSE IF found = {} THEN [status |-> "Ok", entry |-> None]
       ELSE [status |-> "Ok", entry |-> Some(CHOOSE e \in found : TRUE)]

\* BTreeMap::insert
Insert(recs, key, value) == (key :> value) @@ recs

propose_tentative_inconsistent(recs, client, sequence, view, operation) ==
    Insert(recs, RecordKey(client, sequence, view),
           RecordValue("Tentative", "Inconsistent", operation))

promote_finalized_inconsistent(recs, client, sequence, view, message) ==
    Insert(recs, RecordKey(client, sequence, view),
           RecordValue("Finalized", "Inconsistent", message))

propose_tentative_consistent(recs, client, sequence, view, operation) ==
    Insert(recs, RecordKey(client, sequence, view),
           RecordValue("Tentative", "Consistent", operation))

\* The store after the insert, and the message of the value the insert replaced.
promote_finalized_consistent_returning_previous_evaluation(recs, client, sequence, view, operation) ==
    LET key == RecordKey(client, sequence, view)
    IN [records |-> Insert(recs, key, RecordValue("Finalized", "Consistent", operation)),
        previous |-> IF key \in DOMAIN recs THEN Some(recs[key].operation) ELSE None]

\* ------------------------------------------------------------------ executor
\* NoopComputer: every method returns the message it is given.
evaluate_inconsistent(message) == message
exec_inconsistent(message) == message
exec_consistent(message) == message
reconcile_consistent(previous, message) == message

\* ------------------------------------------------------------------ storage
\* What a storage call does: it panics (an assertion fails), leaving the store
\* as it was, or it returns a value, with the store it leaves behind and the
\* executor method it called.
StoragePanic(recs) ==
    [status |-> "Panic", records |-> recs, value |-> None, exec |-> "none", previous |-> None]

StorageOk(recs, value, exec, previous) ==
    [status |-> "Ok", records |-> recs, value |-> Some(value), exec |-> exec,
     previous |-> previous]

record_tentative_inconsistent_and_evaluate(recs, client, operation, view, message) ==
    LET existing == find_entry(recs, client, operation)
    IN IF existing.status = "Panic" THEN StoragePanic(recs)
       ELSE IF IsSome(existing.entry)
               /\ \/ Unwrap(existing.entry).view # view
                  \/ Unwrap(existing.entry).message # message
                  \/ Unwrap(existing.entry).ir_operation # "InconsistentPropose"
            THEN StoragePanic(recs)
       ELSE StorageOk(propose_tentative_inconsistent(recs, client, operation, view, message),
                      evaluate_inconsistent(message), "evaluate_inconsistent", None)

promote_finalized_and_exec_inconsistent(recs, client, operation, view, message) ==
    LET existing == find_entry(recs, client, operation)
    IN IF existing.status = "Panic" THEN StoragePanic(recs)
       ELSE IF IsSome(existing.entry)
               /\ \/ Unwrap(existing.entry).view # view
                  \/ Unwrap(existing.entry).ir_operation # "InconsistentFinalize"
            THEN StoragePanic(recs)
       ELSE StorageOk(promote_finalized_inconsistent(recs, client, operation, view, message),
                      exec_inconsistent(message), "exec_inconsistent", None)

\* record_tentative_and_exec_consistent without its assertion on the view of the
\* existing entry.
record_tentative_and_exec_consistent_AnyView(recs, client, sequence, view, operation) ==
    LET existing == find_entry(recs, client, sequence)
    IN IF existing.status = "Panic" THEN StoragePanic(recs)
       ELSE IF IsSome(existing.entry)
               /\ Unwrap(existing.entry).ir_operation # "ConsistentFinalize"
            THEN StoragePanic(recs)
       ELSE StorageOk(propose_tentative_consistent(recs, client, sequence, view, operation),
                      exec_consistent(operation), "exec_consistent", None)

record_tentative_and_exec_consistent(recs, client, sequence, view, operation) ==
    LET existing == find_entry(recs, client, sequence)
    IN IF existing.status = "Panic" THEN StoragePanic(recs)
       ELSE IF IsSome(existing.entry)
               /\ \/ Unwrap(existing.entry).view # view
                  \/ Unwrap(existing.entry).ir_operation # "ConsistentFinalize"
            THEN StoragePanic(recs)
       ELSE StorageOk(propose_tentative_consistent(recs, client, sequence, view, operation),
                      exec_consistent(operation), "exec_consistent", None)

promote_finalized_and_reconcile_consistent(recs, client, sequence, view, operation) ==
    LET existing == find_entry(recs, client, sequence)
        promoted == promote_finalized_consistent_returning_previous_evaluation(
                        recs, client, sequence, view, operation)
    IN IF existing.status = "Panic" THEN StoragePanic(recs)
       ELSE IF IsSome(existing.entry)
               /\ \/ Unwrap(existing.entry).view # view
                  \/ Unwrap(existing.entry).ir_operation # "ConsistentFinalize"
            THEN StoragePanic(recs)
       ELSE StorageOk(promoted.records, reconcile_consistent(promoted.previous, operation),
                      "reconcile_consistent", promoted.previous)

\* ------------------------------------------------------------------ replica
\* A constructor that keeps the state of the recovered view (as src/server.rs does).
new_KeepState(recovered) == recovered

\* InconsistentReplicationServer::new: the view recovered from storage, in Recovery.
new(recovered) == [recovered EXCEPT !.state = "Recovery"]

\* What a handler call does: the Result it returns (Ok((value, view)) or
\* Err(Recovering(view))), or a panic; the store it leaves; the executor method called.
HandlerPanic(v, recs) ==
    [status |-> "Panic", view |-> v, value |-> None, records |-> recs, exec |-> "none",
     previous |-> None]

Recovering(v, recs) ==
    [status |-> "Recovering", view |-> v, value |-> None, records |-> recs, exec |-> "none",
     previous |-> None]

\* Ok((value, view)) after the storage call r returned; a panic if r panicked.
HandlerOk(v, r, value) ==
    IF r.status = "Panic" THEN HandlerPanic(v, r.records)
    ELSE [status |-> "Ok", view |-> v, value |-> value, records |-> r.records,
          exec |-> r.exec, previous |-> r.previous]

propose_inconsistent(v, recs, client_id, operation_sequence, message) ==
    IF v.state # "Normal" THEN HandlerPanic(v, recs)
    ELSE LET m == record_tentative_inconsistent_and_evaluate(
                      recs, client_id, operation_sequence, v, message)
         IN HandlerOk(v, m, m.value)

finalize_inconsistent(v, recs, client_id, operation_sequence, message) ==
    IF v.state # "Normal" THEN HandlerPanic(v, recs)
    ELSE LET r == promote_finalized_and_exec_inconsistent(
                      recs, client_id, operation_sequence, v, message)
         IN HandlerOk(v, r, Some(message))

\* propose_consistent without the check of the Recovery state.
propose_consistent_Unchecked(v, recs, client_id, operation_sequence, message) ==
    LET resolved_message == record_tentative_and_exec_consistent(
                                recs, client_id, operation_sequence, v, message)
    IN HandlerOk(v, resolved_message, resolved_message.value)

propose_consistent(v, recs, client_id, operation_sequence, message) ==
    IF v.state = "Recovery" THEN Recovering(v, recs)
    ELSE LET resolved_message == record_tentative_and_exec_consistent(
                                     recs, client_id, operation_sequence, v, message)
         IN HandlerOk(v, resolved_message, resolved_message.value)

finalize_consistent(v, recs, client_id, operation_sequence, message) ==
    IF v.state # "Normal" THEN HandlerPanic(v, recs)
    ELSE LET m == promote_finalized_and_reconcile_consistent(
                      recs, client_id, operation_sequence, v, message)
         IN HandlerOk(v, m, m.value)

\* ------------------------------------------------------------------ the merge of peer records
\* IROperation: the variant, with its client, sequence and message.
IROperationVariants == {"InconsistentPropose", "InconsistentFinalize",
                        "ConsistentPropose", "ConsistentFinalize"}

Operation(variant, client, sequence, message) ==
    [ir_operation |-> variant, client |-> client, sequence |-> sequence, message |-> message]

\* IROperation::consistent
consistent(op) == op.ir_operation \in {"ConsistentPropose", "ConsistentFinalize"}

\* The (client, sequence) of an operation.
Slot(op) == [client |-> op.client, sequence |-> op.sequence]

\* The view the coordinator is in while the records of its peers arrive.
merge_view == View(1, Members, "ViewChanging")

\* The replicas that ship their record to the coordinator.
Peers == {2, 3}

\* The sequences that list the elements of S once each.
Orders(S) == {o \in [1..Cardinality(S) -> S] : Range(o) = S}

\* The storage of the coordinator: its local record store, the shadow stores
\* of the peers (received_record_logs, of one view), the peers whose record has
\* arrived in full with what each has shipped, the main record and the
\* undecided operations of the merge, and whether the merge has run.
MergeStorage(local) ==
    [records |-> local,
     received_record_logs |-> [n \in Peers |-> EmptyMap],
     shipped |-> [n \in Peers |-> {}],
     full_records |-> {},
     main_record |-> EmptyMap,
     unresolved |-> EmptyMap,
     status |-> "Receiving"]

\* The match of add_peer_view_change_operation on (operation, found): a
\* ConsistentFinalize is written with propose_tentative_consistent; a Propose is
\* written if the shadow store has no entry of the slot; no arm writes anything
\* in the other cases.
AddToShadowStore(store, found, view, operation) ==
    IF operation.ir_operation = "InconsistentFinalize"
    THEN promote_finalized_inconsistent(store, operation.client, operation.sequence, view,
                                        operation.message)
    ELSE IF operation.ir_operation = "InconsistentPropose"
    THEN (IF found = None
          THEN propose_tentative_inconsistent(store, operation.client, operation.sequence,
                                              view, operation.message)
          ELSE store)
    ELSE IF operation.ir_operation = "ConsistentFinalize" \/ found = None
    THEN propose_tentative_consistent(store, operation.client, operation.sequence, view,
                                      operation.message)
    ELSE store

add_peer_view_change_operation(st, node_id, view, operation) ==
    [st EXCEPT !.received_record_logs[node_id] =
                   AddToShadowStore(@, find_entry(@, operation.client, operation.sequence).entry,
                                    view, operation),
               !.shipped[node_id] = @ \cup {operation}]

\* The operation an entry of a record store stands for.
EntryOperation(k, v) == Operation(IROperation(v), k.client, k.sequence, v.operation)

\* get_peers_with_full_records: the peers whose record has arrived in full.
get_peers_with_full_records(st, view) == st.full_records

\* get_view_record_operations: the operations of the shadow store of a peer.
get_view_record_operations(st, node, view) ==
    {EntryOperation(k, st.received_record_logs[node][k]) :
        k \in DOMAIN st.received_record_logs[node]}

\* get_main_or_local_operation: the entry of the main record, or else the one
\* of the local record, or None.
LocalOperation(found, client, operation_sequence) ==
    IF found = None THEN None
    ELSE Some(Operation(Unwrap(found).ir_operation, client, operation_sequence,
                        Unwrap(found).message))

get_main_or_local_operation(st, view, client, operation_sequence) ==
    IF [client |-> client, sequence |-> operation_sequence] \in DOMAIN st.main_record
    THEN Some(st.main_record[[client |-> client, sequence |-> operation_sequence]])
    ELSE LocalOperation(find_entry(st.records, client, operation_sequence).entry,
                        client, operation_sequence)

\* A map without the key k.
Without(map, k) == [x \in DOMAIN map \ {k} |-> map[x]]

\* record_main_operation: the resolved operation is the entry of its slot in
\* the main record, and the slot is no longer undecided.
record_main_operation(st, view, operation) ==
    [st EXCEPT !.main_record = (Slot(operation) :> operation) @@ @,
               !.unresolved = Without(@, Slot(operation))]

\* record_main_operation_add_undecided: the operation joins the undecided ones
\* of its slot; writing it again changes nothing.
record_main_operation_add_undecided(st, view, operation) ==
    [st EXCEPT !.unresolved =
        (Slot(operation) :>
            ((IF Slot(operation) \in DOMAIN @ THEN @[Slot(operation)] ELSE {})
                 \cup {operation})) @@ @]

\* get_unresolved_record_operations: the undecided operations, slot by slot.
get_unresolved_record_operations(st, view) == st.unresolved

\* resolve_record_merge: the match on (received, ours), arm by arm. The two
\* InconsistentPropose arm is empty, and no arm covers a Propose received for a
\* slot that neither the main nor the local record holds, or that they hold in
\* the other class: nothing is recorded then.
resolve_record_merge(st, view, received, ours) ==
    IF received.ir_operation = "InconsistentFinalize"
    THEN record_main_operation(st, view, received)
    ELSE IF IsSome(ours) /\ Unwrap(ours).ir_operation = "InconsistentFinalize"
    THEN record_main_operation(st, view, Unwrap(ours))
    ELSE IF received.ir_operation = "ConsistentFinalize"
    THEN record_main_operation(st, view, received)
    ELSE IF IsSome(ours) /\ Unwrap(ours).ir_operation = "ConsistentFinalize"
    THEN record_main_operation(st, view, Unwrap(ours))
    ELSE IF received.ir_operation = "ConsistentPropose"
            /\ IsSome(ours) /\ Unwrap(ours).ir_operation = "ConsistentPropose"
    THEN record_main_operation_add_undecided(
             record_main_operation_add_undecided(st, view, received), view, Unwrap(ours))
    ELSE st

\* for op in ops_iter.next().await: the body runs for the first operation the
\* iterator yields, if it yields one.
MergeYielded(st, view, yielded) ==
    IF yielded = <<>> THEN st
    ELSE resolve_record_merge(st, view, Head(yielded),
             get_main_or_local_operation(st, view, Head(yielded).client,
                                         Head(yielded).sequence))

\* The votes find_quorum is given for the undecided operations of a slot: the
\* node of each vote is the client of the operation.
RECURSIVE UndecidedVotes(_, _)
UndecidedVotes(ops, view) ==
    IF ops = {} THEN <<>>
    ELSE LET op == CHOOSE x \in ops : \A y \in ops : x.message <= y.message
         IN <<QuorumVote(op.client, op.message, view)>> \o UndecidedVotes(ops \ {op}, view)

\* quorum.expect(..) and the record_main_operation of the Finalize of the
\* class of the first operation, with the message of the quorum.
ResolveUndecided(st, first_op, q) ==
    IF q.kind # "Quorum" THEN [st EXCEPT !.status = "Panic"]
    ELSE record_main_operation(st, q.view,
             Operation(IF consistent(first_op) THEN "ConsistentFinalize"
                       ELSE "InconsistentFinalize",
                       first_op.client, first_op.sequence, q.message))

\* The loop over the undecided operations, slot by slot, until a panic.
RECURSIVE ResolveAllUndecided(_, _, _)
ResolveAllUndecided(st, view, slots) ==
    IF slots = {} \/ st.status = "Panic" THEN st
    ELSE LET slot == CHOOSE x \in slots : \A y \in slots : x.sequence <= y.sequence
         IN ResolveAllUndecided(
                ResolveUndecided(st, CHOOSE x \in st.unresolved[slot] :
                                         \A y \in st.unresolved[slot] : x.message <= y.message,
                                 find_quorum(UndecidedVotes(st.unresolved[slot], view))),
                view, slots \ {slot})

\* The body of the loop of merge for one node.
MergeNode(st, view, yielded) ==
    ResolveAllUndecided(MergeYielded(st, view, yielded), view,
                        DOMAIN get_unresolved_record_operations(
                                   MergeYielded(st, view, yielded), view))

\* merge: the loop over full_record_members; iteration[node] is the order in
\* which the iterator over the operations of node yields them.
RECURSIVE merge(_, _, _, _)
merge(st, full_record_members, view, iteration) ==
    IF st.status = "Panic" THEN st
    ELSE IF full_record_members = <<>> THEN [st EXCEPT !.status = "Merged"]
    ELSE merge(MergeNode(st, view, iteration[Head(full_record_members)]),
               Tail(full_record_members), view, iteration)

\* The orders in which the iterators over the shadow stores can yield.
Iterations(st) ==
    {it \in [st.full_records ->
                UNION {Orders(get_view_record_operations(st, n, merge_view)) :
                          n \in st.full_records}] :
        \A n \in st.full_records : it[n] \in Orders(get_view_record_operations(st, n, merge_view))}

\* The while loop of process_incoming_operations, after which the record of
\* from_who is full.
RECURSIVE ReceiveAll(_, _, _, _)
ReceiveAll(st, from_who, view, operations) ==
    IF operations = <<>> THEN [st EXCEPT !.full_records = @ \cup {from_who}]
    ELSE ReceiveAll(add_peer_view_change_operation(st, from_who, view, Head(operations)),
                    from_who, view, Tail(operations))

\* The test with f full records taken as enough.
enough_full_records_NoPlusOne(full_records, view) ==
    Cardinality(full_records) >= Unwrap(f(Len(view.members)))

\* full_records.len() >= f(view.members.len()).unwrap() + 1
enough_full_records(full_records, view) ==
    Cardinality(full_records) >= Unwrap(f(Len(view.members))) + 1

\* ------------------------------------------------------------------ state
VARIABLES
    view,           \* the replica's view: Some(view) while switched on, None while off
    current_view,   \* the view the replica's storage holds (recover_current_view)
    records,        \* the replica's record store: RecordKey -> RecordValue
    last            \* the call on the replica that has just returned, and its outcome

rvars == <<view, current_view, records, last>>

\* No call has just returned. observed is the _highest_observed_view the call
\* was given, None if it was given none.
Idle == [op |-> "none", client |-> 0, sequence |-> 0, message |-> 0, status |-> "none",
         called_in |-> None, found |-> None, view |-> None, value |-> None,
         exec |-> "none", previous |-> None, wrote |-> FALSE, observed |-> None]

\* InconsistentReplicationServer::new has just returned.
Constructed == [Idle EXCEPT !.op = "new"]

\* The outcome h of handler op, called while the replica's view was v and the
\* store held the entry found for the slot.
Returned(op, client, sequence, message, v, h) ==
    [op |-> op, client |-> client, sequence |-> sequence, message |-> message,
     status |-> h.status, called_in |-> Some(v),
     found |-> find_entry(records, client, sequence).entry,
     view |-> IF h.status = "Panic" THEN None ELSE Some(h.view),
     value |-> h.value, exec |-> h.exec, previous |-> h.previous,
     wrote |-> h.records # records, observed |-> None]

\* FakeIRStorage::new(members, ..) and then InconsistentReplicationServer::new,
\* registered with the network as On.
InitReplica ==
    /\ current_view = View(0, Members, "Normal")
    /\ records = EmptyMap
    /\ view = Some(new(current_view))
    /\ last = Constructed

Handle(op, client, sequence, message, h) ==
    /\ records' = h.records
    /\ last' = Returned(op, client, sequence, message, Unwrap(view), h)
    /\ UNCHANGED <<view, current_view>>

\* The network delivers a ProposeInconsistent to the replica (only to an On node).
ProposeInconsistent(client, sequence, message) ==
    /\ IsSome(view)
    /\ Handle("ProposeInconsistent", client, sequence, message,
              propose_inconsistent(Unwrap(view), records, client, sequence, message))

FinalizeInconsistent(client, sequence, message) ==
    /\ IsSome(view)
    /\ Handle("FinalizeInconsistent", client, sequence, message,
              finalize_inconsistent(Unwrap(view), records, client, sequence, message))

ProposeConsistent(client, sequence, message) ==
    /\ IsSome(view)
    /\ Handle("ProposeConsistent", client, sequence, message,
              propose_consistent(Unwrap(view), records, client, sequence, message))

FinalizeConsistent(client, sequence, message) ==
    /\ IsSome(view)
    /\ Handle("FinalizeConsistent", client, sequence, message,
              finalize_consistent(Unwrap(view), records, client, sequence, message))

\* FakeIRNetwork::switch on an On node: shutdown, the server is dropped.
SwitchOff ==
    /\ IsSome(view)
    /\ view' = None
    /\ last' = Idle
    /\ UNCHANGED <<current_view, records>>

\* FakeIRNetwork::switch on an Off node: a new server over the same storage.
SwitchOn ==
    /\ ~IsSome(view)
    /\ view' = Some(new(current_view))
    /\ last' = Constructed
    /\ UNCHANGED <<current_view, records>>

\* FakeIRStorage::set_current_view
SetCurrentView(v) ==
    /\ current_view' = v
    /\ last' = Idle
    /\ UNCHANGED <<view, records>>

\* The replica completes catch-up or a view change: its view becomes Normal.
EnterNormal ==
    /\ IsSome(view)
    /\ Unwrap(view).state # "Normal"
    /\ view' = Some([Unwrap(view) EXCEPT !.state = "Normal"])
    /\ last' = Idle
    /\ UNCHANGED <<current_view, records>>

\* The replica starts the change to the next view.
BeginViewChange ==
    /\ IsSome(view)
    /\ Unwrap(view).view < MaxViewNumber
    /\ view' = Some(View(Unwrap(view).view + 1, Unwrap(view).members, "ViewChanging"))
    /\ last' = Idle
    /\ UNCHANGED <<current_view, records>>

\* The views set_current_view is given: like FakeIRStorage::new, the callers
\* store the state Normal.
StorableViews == {View(n, Members, "Normal") : n \in 0..MaxViewNumber}

NextReplica ==
    \/ \E c \in Clients, q \in OperationSequences, m \in OpMsgs :
          \/ ProposeInconsistent(c, q, m)
          \/ FinalizeInconsistent(c, q, m)
          \/ ProposeConsistent(c, q, m)
          \/ FinalizeConsistent(c, q, m)
    \/ SwitchOff
    \/ SwitchOn
    \/ \E v \in StorableViews : SetCurrentView(v)
    \/ EnterNormal
    \/ BeginViewChange

\* ------------------------------------------------------------------ find_quorum state
VARIABLES
    bag,        \* the distinct votes the iterator has yielded so far
    tally       \* find_quorum's locals: votes, highest_view, all_nodes

qvars == <<bag, tally>>

\* What find_quorum returns if the iterator ends here.
quorum == QuorumOfTally(tally)

\* The votes a call may be fed: any node with any message in the views of at
\* least 3 members, any node with message 1 in the 2-member view.
AllVotes ==
    {QuorumVote(n, m, v) : n \in Nodes, m \in Msgs, v \in {view_4_1_normal, view_3_2_normal}}
        \cup {QuorumVote(n, 1, view_2_3_normal) : n \in Nodes}

InitQuorum ==
    /\ bag = {}
    /\ tally = EmptyTally

\* ------------------------------------------------------------------ quorum sizes state
VARIABLES
    cluster,        \* the cluster size the three size functions were last called with
    sizes,          \* what f, fast_quorum and slow_quorum returned for it
    client_sizes    \* what the size functions of src/client.rs returned for it, if called

svars == <<cluster, sizes, client_sizes>>

\* Largest cluster size the size functions are called with.
MaxClusterSize == 120

QuorumSizes(n) == [f |-> f(n), fast_quorum |-> fast_quorum(n), slow_quorum |-> slow_quorum(n)]

ClientQuorumSizes(n) ==
    [f |-> client_f(n), fast_quorum |-> client_fast_quorum(n),
     slow_quorum |-> client_slow_quorum(n)]

InitSizes ==
    /\ cluster = 0
    /\ sizes = QuorumSizes(0)
    /\ client_sizes = None

\* f(n), fast_quorum(n) and slow_quorum(n) are called.
DeriveSizes(n) ==
    /\ cluster' = n
    /\ sizes' = QuorumSizes(n)
    /\ client_sizes' = None

\* The size functions of the quorum engine and those of src/client.rs are
\* called for the same cluster.
DeriveBothSizes(n) ==
    /\ cluster' = n
    /\ sizes' = QuorumSizes(n)
    /\ client_sizes' = Some(ClientQuorumSizes(n))

\* ------------------------------------------------------------------ the fake network
\* The replicas mock_cluster registers with the network.
ClusterNodes == {1, 2, 3}

\* A registered node: SwitchableNode::On(server, storage) holds Some(view of the
\* server), SwitchableNode::Off(storage) holds None; the storage is kept by both.
SwitchableNode(v, stored, recs) == [view |-> v, current_view |-> stored, records |-> recs]

\* FakeIRNetwork::should_drop: true, and one packet fewer to drop, iff the
\* counter of the node is above zero.
should_drop(counter, id) ==
    IF counter[id] > 0
    THEN [drop |-> TRUE, counter |-> [counter EXCEPT ![id] = @ - 1]]
    ELSE [drop |-> FALSE, counter |-> counter]

\* The five request methods of the network and the server handler each calls.
NetworkMethods == {"propose_inconsistent", "propose_consistent",
                   "async_finalize_inconsistent", "async_finalize_consistent",
                   "sync_finalize_consistent"}

ServerHandler(method, v, recs, client_id, sequence, message) ==
    CASE method = "propose_inconsistent" ->
             propose_inconsistent(v, recs, client_id, sequence, message)
      [] method = "propose_consistent" ->
             propose_consistent(v, recs, client_id, sequence, message)
      [] method = "async_finalize_inconsistent" ->
             finalize_inconsistent(v, recs, client_id, sequence, message)
      [] OTHER ->
             finalize_consistent(v, recs, client_id, sequence, message)

\* The entries of the response vector.
NodeUnreachable(id) ==
    [node |-> id, kind |-> "NodeUnreachable", message |-> None, view |-> None]
ServerError(id, v) ==
    [node |-> id, kind |-> "IRServerError", message |-> None, view |-> Some(v)]
ResponseOk(id, message, v) ==
    [node |-> id, kind |-> "Ok", message |-> message, view |-> Some(v)]

\* One iteration of the loop over the destinations: the network after it, the
\* response pushed, or the panic that ends the call.
Delivered(n, response) == [net |-> n, response |-> response, panicked |-> FALSE]
DeliveryPanic(n, id) == [net |-> n, response |-> NodeUnreachable(id), panicked |-> TRUE]

\* The loop body after the handler returned h: the response is dropped, or it
\* is pushed (Err(IRServerError) for a Recovering replica, Ok otherwise).
PushResponse(n, destination, h, response) ==
    IF response.drop
    THEN Delivered([n EXCEPT !.drop_responses = response.counter], NodeUnreachable(destination))
    ELSE IF h.status = "Recovering" THEN Delivered(n, ServerError(destination, h.view))
    ELSE Delivered(n, ResponseOk(destination, h.value, h.view))

\* The loop body once the handler of the destination ran with outcome h: the
\* storage of the node holds what the handler wrote; a panic ends the call.
AwaitHandler(n, destination, h) ==
    IF h.status = "Panic"
    THEN DeliveryPanic([n EXCEPT !.nodes[destination].records = h.records], destination)
    ELSE PushResponse([n EXCEPT !.nodes[destination].records = h.records], destination, h,
                      should_drop(n.drop_responses, destination))

\* The loop body for an On node: a dropped request does not reach the handler.
DeliverOn(method, n, destination, request, client_id, sequence, message) ==
    IF request.drop
    THEN Delivered([n EXCEPT !.drop_requests = request.counter], NodeUnreachable(destination))
    ELSE AwaitHandler(n, destination,
                      ServerHandler(method, Unwrap(n.nodes[destination].view),
                                    n.nodes[destination].records,
                                    client_id, sequence, message))

\* The loop body of the request methods: an unregistered destination panics
\* propose_inconsistent (get(..).unwrap()) and is unreachable for the others; an
\* Off node is unreachable; a dropped request does not reach the handler; a
\* dropped response is lost after the handler ran.
Deliver(method, n, destination, client_id, sequence, message) ==
    IF destination \notin DOMAIN n.nodes
    THEN IF method = "propose_inconsistent" THEN DeliveryPanic(n, destination)
         ELSE Delivered(n, NodeUnreachable(destination))
    ELSE IF ~IsSome(n.nodes[destination].view)
    THEN Delivered(n, NodeUnreachable(destination))
    ELSE DeliverOn(method, n, destination, should_drop(n.drop_requests, destination),
                   client_id, sequence, message)

\* What a request method leaves: the network, the response vector, or a panic.
Broadcasted(n, responses, panicked) ==
    [net |-> n, responses |-> responses, panicked |-> panicked]

\* responses.push(..) in front of what the rest of the loop pushed.
Pushed(response, rest) == Broadcasted(rest.net, <<response>> \o rest.responses, rest.panicked)

\* A request method of the network: the loop over the destinations in order.
RECURSIVE Broadcast(_, _, _, _, _, _)
RECURSIVE BroadcastRest(_, _, _, _, _, _)
Broadcast(method, n, destinations, client_id, sequence, message) ==
    IF destinations = <<>> THEN Broadcasted(n, <<>>, FALSE)
    ELSE BroadcastRest(method, Deliver(method, n, Head(destinations), client_id, sequence, message),
                       Tail(destinations), client_id, sequence, message)

\* The loop after the iteration d: ended by a panic, or carried on.
BroadcastRest(method, d, destinations, client_id, sequence, message) ==
    IF d.panicked THEN Broadcasted(d.net, <<>>, TRUE)
    ELSE Pushed(d.response,
                Broadcast(method, d.net, destinations, client_id, sequence, message))

\* ------------------------------------------------------------------ the client
\* client/mod.rs: const MINIMUM_CLUSTER_SIZE
MINIMUM_CLUSTER_SIZE == 3

\* The client id of the one client, and the invocations it makes.
ClientId == 0
Calls == 1..2

\* The size check with the minimum one too low.
cluster_too_small_BelowTwo(nodes) == Len(nodes) < MINIMUM_CLUSTER_SIZE - 1

\* nodes.len() < MINIMUM_CLUSTER_SIZE
cluster_too_small(nodes) == Len(nodes) < MINIMUM_CLUSTER_SIZE

\* A fetch_add that adds nothing.
fetch_add_NoIncrement(counter) == [previous |-> counter, counter |-> counter]

\* AtomicU64::fetch_add(1, SeqCst): the previous value is returned. The counter
\* wraps at 2^64, beyond any number of calls made here.
fetch_add(counter) == [previous |-> counter, counter |-> counter + 1]

\* The Ok responses, in the order of the response vector, as votes.
RECURSIVE OkVotes(_)
OkVotes(responses) ==
    IF responses = <<>> THEN <<>>
    ELSE LET r == Head(responses) IN
         IF r.kind = "Ok"
         THEN <<QuorumVote(r.node, Unwrap(r.message), Unwrap(r.view))>> \o OkVotes(Tail(responses))
         ELSE OkVotes(Tail(responses))

\* The results of a call.
ResultOk(value) == [kind |-> "Ok", value |-> value]
ResultErr(error) == [kind |-> "Err", value |-> error]
ResultPanic == [kind |-> "Panic", value |-> "panic"]
\* Ok(())
Unit == "()"

\* find_quorum(..) taking a NoQuorum with a single voted message as a quorum.
quorum_or_error_Lenient(q, error) ==
    IF q.kind = "Quorum" THEN [kind |-> "Quorum", quorum |-> Some(q), result |-> None]
    ELSE IF q.kind = "Panic" THEN [kind |-> "Panic", quorum |-> None, result |-> Some(ResultPanic)]
    ELSE IF q.kind = "NoQuorum" /\ Cardinality(DOMAIN q.votes) = 1
         THEN LET m == CHOOSE x \in DOMAIN q.votes : TRUE
              IN [kind |-> "Quorum",
                  quorum |-> Some(Quorum(m, Range(q.votes[m]), {}, q.view, "NormalQuorum")),
                  result |-> None]
    ELSE [kind |-> "Err", quorum |-> None, result |-> Some(ResultErr(error))]

\* find_quorum(..).map_err(|_| error)?
quorum_or_error(q, error) ==
    IF q.kind = "Quorum" THEN [kind |-> "Quorum", quorum |-> Some(q), result |-> None]
    ELSE IF q.kind = "Panic" THEN [kind |-> "Panic", quorum |-> None, result |-> Some(ResultPanic)]
    ELSE [kind |-> "Err", quorum |-> None, result |-> Some(ResultErr(error))]

\* &quorum.view.members
finalize_destinations(nodes, q) == q.view.members

VARIABLES
    net,            \* the FakeIRNetwork: nodes, drop_requests, drop_responses
    ir_client,      \* the client: sequence, latest_view, and the view its storage holds
    calls,          \* the invocations of the client, each with its position
    sent            \* the request methods the client has called on the network

cvars == <<net, ir_client, calls, sent>>

\* An invocation not yet made. proposals counts its calls of the propose method
\* of the network; decide_choices is the argument of its call of
\* decide_function.decide, None while it has made none; confirmations is the
\* response vector of its sync_finalize_consistent.
NotCalled ==
    [pc |-> "idle", method |-> "none", message |-> 0, sequence |-> None, nodes |-> <<>>,
     responses |-> <<>>, quorum |-> None, result |-> None, after |-> {},
     all_reachable |-> TRUE, proposals |-> 0, decide_choices |-> None,
     confirmations |-> <<>>]

\* A call of a request method of the network by call c.
Request(c, method, destinations, sequence, message) ==
    [call |-> c, method |-> method, destinations |-> destinations, client |-> ClientId,
     sequence |-> sequence, message |-> message]

\* Every registered node is On and no packet is to be dropped.
AllReachable(n) ==
    \A id \in DOMAIN n.nodes :
        IsSome(n.nodes[id].view) /\ n.drop_requests[id] = 0 /\ n.drop_responses[id] = 0

\* The views the storages are created with: the client's (of 3 or 2 members)
\* and the replicas' (of the 3 replicas, or with a fourth member never registered).
ClientMembers == {<<1, 2, 3>>, <<1, 2>>}
ReplicaMembers == {<<1, 2, 3>>, <<1, 2, 3, 4>>}

\* mock_cluster over replicas whose storages hold the members rm and the view
\* numbers number[id] (FakeIRStorage::set_current_view before the server is
\* built), and InconsistentReplicationClient::new over a storage with view 0
\* and the members cm.
InitViews(cm, rm, number) ==
        /\ net = [nodes |-> [id \in ClusterNodes |->
                                SwitchableNode(Some(new(View(number[id], rm, "Normal"))),
                                               View(number[id], rm, "Normal"), EmptyMap)],
                  drop_requests |-> [id \in ClusterNodes |-> 0],
                  drop_responses |-> [id \in ClusterNodes |-> 0]]
        /\ ir_client = [sequence |-> 0, latest_view |-> View(0, cm, "Normal"),
                     storage_view |-> View(0, cm, "Normal")]
        /\ calls = [c \in Calls |-> NotCalled]
        /\ sent = {}

\* The cluster and the client all in view 0.
InitClient(cm, rm) == InitViews(cm, rm, [id \in ClusterNodes |-> 0])

Returned_calls == {c \in Calls : calls[c].pc = "done"}

\* The first step of call c: returned at once with the error, or begun with
\* the sequence number the fetch_add returned.
Begin(c, begun, nodes, sequence) ==
    /\ IF cluster_too_small(nodes)
       THEN /\ calls' = [calls EXCEPT ![c] =
                           [begun EXCEPT !.pc = "done",
                                         !.result = Some(ResultErr("Cluster size is too small"))]]
            /\ UNCHANGED ir_client
       ELSE /\ calls' = [calls EXCEPT ![c] =
                           [begun EXCEPT !.pc = "proposing", !.nodes = nodes,
                                         !.sequence = Some(sequence.previous)]]
            /\ ir_client' = [ir_client EXCEPT !.sequence = sequence.counter]
    /\ UNCHANGED <<net, sent>>

\* The view whose members a method counts: invoke_inconsistent the view cached
\* at construction, invoke_consistent the view its storage holds.
CheckedView(method) ==
    IF method = "invoke_inconsistent" THEN ir_client.latest_view ELSE ir_client.storage_view

\* invoke_inconsistent / invoke_consistent up to the first await on the
\* network: the size check and the fetch_add.
Invoke(c, method, message) ==
    /\ calls[c].pc = "idle"
    /\ Begin(c,
             [calls[c] EXCEPT !.method = method, !.message = message, !.after = Returned_calls],
             CheckedView(method).members,
             fetch_add(ir_client.sequence))

\* The network method a client method proposes with.
ProposeMethod(method) ==
    IF method = "invoke_inconsistent" THEN "propose_inconsistent" ELSE "propose_consistent"

\* The call once the proposal was answered with b and find_quorum gave outcome.
Proposed(call, b, outcome) ==
    IF b.panicked THEN [call EXCEPT !.pc = "done", !.result = Some(ResultPanic)]
    ELSE IF outcome.kind = "Quorum"
    THEN [call EXCEPT !.pc = "finalizing", !.responses = b.responses,
                      !.quorum = outcome.quorum]
    ELSE [call EXCEPT !.pc = "done", !.responses = b.responses, !.result = outcome.result]

\* The step of call c in which the network method answered with b.
Answer(c, call, request, b) ==
    /\ net' = b.net
    /\ sent' = sent \cup {request}
    /\ calls' = [calls EXCEPT ![c] = call]
    /\ UNCHANGED ir_client

\* network.propose_inconsistent / propose_consistent, the filter of the Ok
\* responses and find_quorum.
ProposeAnswered(c, b) ==
    Answer(c,
           Proposed([calls[c] EXCEPT !.all_reachable = AllReachable(net),
                                     !.proposals = @ + 1], b,
                    quorum_or_error(find_quorum(OkVotes(b.responses)), "Quorum not found")),
           Request(c, ProposeMethod(calls[c].method), calls[c].nodes,
                   Unwrap(calls[c].sequence), calls[c].message),
           b)

Propose(c) ==
    /\ calls[c].pc = "proposing"
    /\ ProposeAnswered(c, Broadcast(ProposeMethod(calls[c].method), net, calls[c].nodes,
                                    ClientId, Unwrap(calls[c].sequence), calls[c].message))

\* The call over, with its result.
Finalized(call, result) ==
    [call EXCEPT !.pc = "done", !.all_reachable = @ /\ AllReachable(net),
                 !.result = Some(result)]

\* invoke_inconsistent after the quorum q: async_finalize_inconsistent to
\* destinations answered with b, then Ok(quorum.message).
FinalizeInconsistentAnswered(c, q, destinations, b) ==
    Answer(c,
           Finalized(calls[c], IF b.panicked THEN ResultPanic ELSE ResultOk(q.message)),
           Request(c, "async_finalize_inconsistent", destinations,
                   Unwrap(calls[c].sequence), q.message),
           b)

FinalizeInconsistentTo(c, q, destinations) ==
    FinalizeInconsistentAnswered(c, q, destinations,
        Broadcast("async_finalize_inconsistent", net, destinations,
                  ClientId, Unwrap(calls[c].sequence), q.message))

FinalizeInconsistentCall(c) ==
    /\ calls[c].pc = "finalizing"
    /\ calls[c].method = "invoke_inconsistent"
    /\ FinalizeInconsistentTo(c, Unwrap(calls[c].quorum),
                              finalize_destinations(calls[c].nodes, Unwrap(calls[c].quorum)))

\* The network method invoke_consistent finalizes with.
FinalizeMethod(q) ==
    IF q.quorum_type = "FastQuorum" THEN "async_finalize_consistent"
    ELSE "sync_finalize_consistent"

\* invoke_consistent returning Ok(()) whatever the confirmations.
ConsistentResult_Unconfirmed(q, b, outcome) ==
    IF b.panicked \/ (FinalizeMethod(q) = "sync_finalize_consistent" /\ outcome.kind = "Panic")
    THEN ResultPanic
    ELSE ResultOk(Unit)

\* The response vector invoke_consistent keeps of its finalize: the one of
\* sync_finalize_consistent; async_finalize_consistent returns none.
Confirmations(q, b) ==
    IF FinalizeMethod(q) = "sync_finalize_consistent" /\ ~b.panicked THEN b.responses ELSE <<>>

\* The result of invoke_consistent after the finalize: Ok(()) on a fast
\* quorum, and on a normal quorum if the confirmations form a quorum again.
ConsistentResult(q, b, outcome) ==
    IF b.panicked \/ (FinalizeMethod(q) = "sync_finalize_consistent" /\ outcome.kind = "Panic")
    THEN ResultPanic
    ELSE IF FinalizeMethod(q) = "async_finalize_consistent" \/ outcome.kind = "Quorum"
    THEN ResultOk(Unit)
    ELSE Unwrap(outcome.result)

FinalizeConsistentAnswered(c, q, b) ==
    Answer(c,
           Finalized([calls[c] EXCEPT !.confirmations = Confirmations(q, b)],
                     ConsistentResult(q, b,
                         quorum_or_error(
                             find_quorum(OkVotes(b.responses)),
                             "Unable to get enough confirm messages for consistent finalize"))),
           Request(c, FinalizeMethod(q), q.view.members, Unwrap(calls[c].sequence), q.message),
           b)

FinalizeConsistentWith(c, q) ==
    FinalizeConsistentAnswered(c, q,
        Broadcast(FinalizeMethod(q), net, q.view.members,
                  ClientId, Unwrap(calls[c].sequence), q.message))

\* invoke_consistent after the quorum: async_finalize_consistent on a fast
\* quorum; sync_finalize_consistent and a second find_quorum on a normal one.
FinalizeConsistentCall(c) ==
    /\ calls[c].pc = "finalizing"
    /\ calls[c].method = "invoke_consistent"
    /\ FinalizeConsistentWith(c, Unwrap(calls[c].quorum))

\* The faults injected into the cluster: nodes 1 and 2 are switched off and on,
\* requests to nodes 2 and 3 and responses of nodes 2 and 3 are dropped.
SwitchedNodes == {1, 2}
RequestDroppingNodes == {2, 3}
ResponseDroppingNodes == {2, 3}

\* FakeIRNetwork::switch: an On node is shut down and kept as Off; an Off node
\* gets a new server over its storage.
switch(id) ==
    /\ net' = [net EXCEPT !.nodes[id].view =
                  IF IsSome(@) THEN None ELSE Some(new(net.nodes[id].current_view))]
    /\ UNCHANGED <<ir_client, calls, sent>>

\* FakeIRNetwork::drop_requests_add(id, 1), while no request is left to drop.
drop_requests_add(id) ==
    /\ net.drop_requests[id] = 0
    /\ net' = [net EXCEPT !.drop_requests[id] = @ + 1]
    /\ UNCHANGED <<ir_client, calls, sent>>

\* FakeIRNetwork::drop_response_add(id, 1), while no response is left to drop.
drop_response_add(id) ==
    /\ net.drop_responses[id] = 0
    /\ net' = [net EXCEPT !.drop_responses[id] = @ + 1]
    /\ UNCHANGED <<ir_client, calls, sent>>

\* A replica of the cluster completes its catch-up: its view becomes Normal.
NodeEnterNormal(id) ==
    /\ IsSome(net.nodes[id].view)
    /\ Unwrap(net.nodes[id].view).state # "Normal"
    /\ net' = [net EXCEPT !.nodes[id].view = Some([Unwrap(@) EXCEPT !.state = "Normal"])]
    /\ UNCHANGED <<ir_client, calls, sent>>

\* The steps of the calls in flight.
CallSteps ==
    \E c \in Calls :
        \/ Propose(c)
        \/ FinalizeInconsistentCall(c)
        \/ FinalizeConsistentCall(c)

\* One call of the client while faults are injected.
NextClient ==
    \/ \E m \in OpMsgs :
          \/ Invoke(1, "invoke_inconsistent", m)
          \/ Invoke(1, "invoke_consistent", m)
    \/ CallSteps
    \/ \E id \in SwitchedNodes : switch(id)
    \/ \E id \in RequestDroppingNodes : drop_requests_add(id)
    \/ \E id \in ResponseDroppingNodes : drop_response_add(id)
    \/ \E id \in ClusterNodes : NodeEnterNormal(id)

\* The calls of the client, concurrent or one after the other, on a cluster
\* without faults.
NextConcurrent ==
    \/ \E c \in Calls, m \in OpMsgs :
          \/ Invoke(c, "invoke_inconsistent", m)
          \/ Invoke(c, "invoke_consistent", m)
    \/ CallSteps
    \/ \E id \in ClusterNodes : NodeEnterNormal(id)

\* ------------------------------------------------------------------ the coordinator of a merge
VARIABLES
    coordinator     \* the storage of the replica that merges the records of its peers

mvars == <<coordinator>>

\* The record a peer ships: at most one operation for each of the slots
\* (0, 0) and (0, 1).
FirstSlotOperations ==
    {Operation(variant, 0, 0, m) : variant \in IROperationVariants, m \in OpMsgs}
SecondSlotOperations == {Operation("InconsistentFinalize", 0, 1, 1)}
ShippedRecords ==
    {<<>>} \cup {<<a>> : a \in FirstSlotOperations \cup SecondSlotOperations}
           \cup {<<a, b>> : a \in FirstSlotOperations, b \in SecondSlotOperations}

\* The local record of the coordinator: empty, or one entry for slot (0, 0).
LocalRecords ==
    {EmptyMap} \cup {RecordKey(0, 0, merge_view) :> RecordValue(state, type, m) :
                        state \in {"Tentative", "Finalized"},
                        type \in {"Inconsistent", "Consistent"}, m \in OpMsgs}

InitMerge(local) == coordinator = MergeStorage(local)

\* The rest of process_incoming_operations, once the operations are stored.
MergeIfEnough(received) ==
    IF enough_full_records(get_peers_with_full_records(received, merge_view), merge_view)
    THEN \E full_record_members \in Orders(get_peers_with_full_records(received, merge_view)),
            iteration \in Iterations(received) :
             coordinator' = merge(received, full_record_members, merge_view, iteration)
    ELSE coordinator' = received

\* process_incoming_operations(from_who, view, operations)
process_incoming_operations(from_who, operations) ==
    /\ coordinator.status = "Receiving"
    /\ from_who \notin coordinator.full_records
    /\ MergeIfEnough(ReceiveAll(coordinator, from_who, merge_view, operations))

NextMerge == \E from_who \in Peers, operations \in ShippedRecords :
                process_incoming_operations(from_who, operations)

vars == <<rvars, qvars, svars, cvars, mvars>>

\* The iterator yields one more vote (possibly one it yielded before).
CastVote(item) ==
    /\ Cardinality(bag) < MaxVotes
    /\ bag' = bag \cup {item}
    /\ tally' = TallyVote(tally, item)

NextQuorum == \E item \in AllVotes : CastVote(item)

\* ------------------------------------------------------------------ specifications
\* The replica under every interleaving of deliveries, restarts and view changes.
Init ==
    /\ InitReplica /\ InitQuorum /\ InitSizes /\ InitClient(Members, Members)
    /\ InitMerge(EmptyMap)
Next == NextReplica /\ UNCHANGED <<qvars, svars, cvars, mvars>>
Spec == Init /\ [][Next]_vars

\* find_quorum over every bounded vote bag, in every order.
NextVotes == NextQuorum /\ UNCHANGED <<rvars, svars, cvars, mvars>>
SpecQuorum == Init /\ [][NextVotes]_vars

\* find_quorum over vote bags whose views have the same number and differ in
\* state: the view a replica returns while Normal and while ViewChanging.
view_3_2_viewchanging == View(2, <<1, 2, 3>>, "ViewChanging")
SameNumberVotes ==
    {QuorumVote(n, m, v) : n \in Nodes, m \in {1, 2},
                           v \in {view_3_2_normal, view_3_2_viewchanging}}
NextSameNumberVotes ==
    (\E item \in SameNumberVotes : CastVote(item))
    /\ UNCHANGED <<rvars, svars, cvars, mvars>>
SpecSameNumber == Init /\ [][NextSameNumberVotes]_vars

\* The size functions over every cluster size up to MaxClusterSize.
NextSizes ==
    (\E n \in 0..MaxClusterSize : DeriveSizes(n)) /\ UNCHANGED <<rvars, qvars, cvars, mvars>>
SpecSizes == Init /\ [][NextSizes]_vars

\* A call of the client against the cluster of replicas over the fake network,
\* interleaved with restarts, packet drops and catch-ups.
InitCluster ==
    /\ InitReplica /\ InitQuorum /\ InitSizes /\ InitMerge(EmptyMap)
    /\ \E cm \in ClientMembers, rm \in ReplicaMembers :
          /\ cm = <<1, 2>> => rm = <<1, 2, 3>>
          /\ InitClient(cm, rm)
NextCalls == NextClient /\ UNCHANGED <<rvars, qvars, svars, mvars>>
SpecClient == InitCluster /\ [][NextCalls]_vars

\* The calls of the client in every interleaving.
NextConcurrentCalls == NextConcurrent /\ UNCHANGED <<rvars, qvars, svars, mvars>>
SpecConcurrent == InitCluster /\ [][NextConcurrentCalls]_vars

\* The calls of a client whose cached view is view 0 against replicas that
\* recovered view 0 or a later view, each its own.
InitStaleClient ==
    /\ InitReplica /\ InitQuorum /\ InitSizes /\ InitMerge(EmptyMap)
    /\ \E number \in [ClusterNodes -> 0..MaxViewNumber] : InitViews(Members, Members, number)
SpecStaleClient == InitStaleClient /\ [][NextConcurrentCalls]_vars

\* The coordinator of a view change receiving the records of its peers, over
\* every local record and every shipped record, and merging them in every order.
InitMergeRecords ==
    /\ InitReplica /\ InitQuorum /\ InitSizes /\ InitClient(Members, Members)
    /\ \E local \in LocalRecords : InitMerge(local)
NextMergeRecords == NextMerge /\ UNCHANGED <<rvars, qvars, svars, cvars>>
SpecMerge == InitMergeRecords /\ [][NextMergeRecords]_vars

\* ------------------------------------------------------------------ the record store, per slot
Handlers == {"ProposeInconsistent", "FinalizeInconsistent", "ProposeConsistent",
             "FinalizeConsistent"}

\* The keys of the entries of slot (client, sequence) in the store recs.
SlotKeys(recs, client, sequence) ==
    {k \in DOMAIN recs : k.client = client /\ k.sequence = sequence}

SlotFinalized(recs, client, sequence) ==
    \E k \in SlotKeys(recs, client, sequence) : recs[k].state = "Finalized"

SlotTentative(recs, client, sequence) ==
    \E k \in SlotKeys(recs, client, sequence) : recs[k].state = "Tentative"

\* C1: once the record of a slot is InconsistentFinalize or ConsistentFinalize,
\* no handler call turns it back into a *Propose record.
C1_FinalizeNeverDowngraded ==
    [][\A c \in Clients, q \in OperationSequences :
          SlotFinalized(records, c, q) => ~SlotTentative(records', c, q)]_vars

\* C1 failing input: ProposeConsistent handled after the FinalizeConsistent of
\* the same slot returned Ok and left the slot's record Tentative.
C1_Witness ==
    /\ last.op = "ProposeConsistent"
    /\ last.status = "Ok"
    /\ IsSome(last.found)
    /\ Unwrap(last.found).ir_operation = "ConsistentFinalize"
    /\ SlotTentative(records, last.client, last.sequence)

\* C2: the store holds at most one entry for each (client, sequence), whatever
\* the views under which the slot's operations were handled, so the assertion
\* of find_entry holds for every slot.
C2_OneEntryPerSlot ==
    \A c \in Clients, q \in OperationSequences :
        /\ Cardinality(SlotKeys(records, c, q)) <= 1
        /\ find_entry(records, c, q).status = "Ok"

\* C2 witness: a handler call for a slot has just returned while the slot's
\* entry was recorded under another view number than the one of the call.
C2_Witness ==
    /\ last.op \in Handlers
    /\ IsSome(last.called_in)
    /\ Unwrap(last.called_in).state = "Normal"
    /\ \E k \in SlotKeys(records, last.client, last.sequence) :
          k.view.view # Unwrap(last.called_in).view

C4_ProposeConsistentRecovering ==
    (last.op = "ProposeConsistent" /\ Unwrap(last.called_in).state = "Recovery") =>
        /\ last.status = "Recovering"
        /\ last.view = view
        /\ last.view = last.called_in
        /\ ~last.wrote
        /\ last.exec = "none"

\* C4 witness: a ProposeConsistent has just been refused by a replica in
\* Recovery whose store already holds a record.
C4_Witness ==
    /\ last.op = "ProposeConsistent"
    /\ Unwrap(last.called_in).state = "Recovery"
    /\ DOMAIN records # {}

\* C5: ProposeInconsistent handled in a state other than Normal returns the
\* error Recovering(current view); nothing is recorded and the call does not abort.
C5_ProposeInconsistentRejected ==
    (last.op = "ProposeInconsistent" /\ Unwrap(last.called_in).state # "Normal") =>
        /\ last.status = "Recovering"
        /\ last.view = last.called_in
        /\ ~last.wrote

\* C5 failing input: ProposeInconsistent handled by a replica just constructed
\* (in Recovery) aborted.
C5_Witness ==
    /\ last.op = "ProposeInconsistent"
    /\ Unwrap(last.called_in).state = "Recovery"
    /\ last.status = "Panic"

\* C6: FinalizeConsistent handled in state Recovery is refused with
\* Recovering(view): the record is unchanged, reconcile_consistent is not
\* called and the call does not abort.
C6_FinalizeConsistentRefused ==
    (last.op = "FinalizeConsistent" /\ Unwrap(last.called_in).state = "Recovery") =>
        /\ last.status = "Recovering"
        /\ last.view = last.called_in
        /\ ~last.wrote
        /\ last.exec = "none"

\* C6 failing input: FinalizeConsistent handled by a replica in Recovery aborted.
C6_Witness ==
    /\ last.op = "FinalizeConsistent"
    /\ Unwrap(last.called_in).state = "Recovery"
    /\ last.status = "Panic"

\* ------------------------------------------------------------------ the vote bag
\* The largest view number among the votes of the bag.
BagHighestNumber ==
    CHOOSE n \in {v.view.view : v \in bag} : \A v \in bag : v.view.view <= n

\* The view of the bag with the largest number.
BagHighestView ==
    CHOOSE w \in {v.view : v \in bag} : \A v \in bag : v.view.view <= w.view

\* The nodes that voted message m in view w.
Voters(w, m) == {v.node : v \in {x \in bag : x.view = w /\ x.message = m}}

MessagesIn(w) == {v.message : v \in {x \in bag : x.view = w}}

\* The tally of view w: every message voted in w with its voters.
TallyOf(w) == [m \in MessagesIn(w) |-> SortedVec(Voters(w, m))]

\* The messages with the largest voter count in view w.
TopMessages(w) ==
    {m \in MessagesIn(w) :
        \A o \in MessagesIn(w) : Cardinality(Voters(w, o)) <= Cardinality(Voters(w, m))}

LowerViewVoters == {v.node : v \in {x \in bag : x.view.view < BagHighestNumber}}

normal_quorum(n) == Unwrap(slow_quorum(n))

\* C7: when find_quorum returns a Quorum Q, Q.view is the view with the highest
\* number among the votes, and the number of participants (nodes_with, equal
\* to Q.count) is at least normal_quorum(|Q.view.members|).
C7_QuorumViewAndSize ==
    LET q == quorum
    IN q.kind = "Quorum" =>
        /\ q.view = BagHighestView
        /\ \A v \in bag : v.view.view <= q.view.view
        /\ Len(q.nodes_with) = q.count
        /\ q.count >= normal_quorum(Len(q.view.members))

\* C7 witness: a Normal quorum in the highest view of a bag that also holds a
\* vote of a lower view.
C7_Witness ==
    /\ quorum.kind = "Quorum"
    /\ quorum.quorum_type = "NormalQuorum"
    /\ LowerViewVoters # {}

\* C8: when the highest view has n >= 3 members and one message alone has the
\* largest voter count k there: Fast quorum iff k >= fast_quorum(n), Normal
\* quorum iff normal_quorum(n) <= k < fast_quorum(n), and NoQuorum with the
\* highest view and its tally iff k < normal_quorum(n).
C8_QuorumKind ==
    (bag # {} /\ Len(BagHighestView.members) >= 3
     /\ Cardinality(TopMessages(BagHighestView)) = 1) =>
        LET hv == BagHighestView
            q == quorum
            n == Len(hv.members)
            top == CHOOSE m \in TopMessages(hv) : TRUE
            k == Cardinality(Voters(hv, top))
            fast == q.kind = "Quorum" /\ q.quorum_type = "FastQuorum"
            normal == q.kind = "Quorum" /\ q.quorum_type = "NormalQuorum"
        IN /\ fast <=> k >= Unwrap(fast_quorum(n))
           /\ normal <=> (normal_quorum(n) <= k /\ k < Unwrap(fast_quorum(n)))
           /\ q.kind = "Quorum" => q.message = top /\ q.view = hv
           /\ q.kind = "NoQuorum" <=> k < normal_quorum(n)
           /\ q.kind = "NoQuorum" => q.view = hv /\ q.votes = TallyOf(hv)

\* C8 witness: in the 4-member view one message has 3 voters and another has 1.
C8_Witness ==
    /\ bag # {}
    /\ BagHighestView = view_4_1_normal
    /\ \E m \in Msgs, o \in Msgs :
          /\ Cardinality(Voters(view_4_1_normal, m)) = 3
          /\ Cardinality(Voters(view_4_1_normal, o)) = 1

\* C9: when two or more messages share the largest voter count in the highest
\* view, find_quorum returns NoQuorum carrying the full tally of that view:
\* every message voted in it, with its voters.
C9_TieIsNoQuorumWithFullTally ==
    (bag # {} /\ Cardinality(TopMessages(BagHighestView)) >= 2) =>
        /\ quorum.kind = "NoQuorum"
        /\ quorum.view = BagHighestView
        /\ quorum.votes = TallyOf(BagHighestView)

\* C9 failing input: messages 1 and 2 tie with two voters each in the highest
\* view, message 3 has one voter there, and the NoQuorum omits message 3.
C9_Witness ==
    /\ bag # {}
    /\ TopMessages(BagHighestView) = {1, 2}
    /\ Cardinality(Voters(BagHighestView, 1)) = 2
    /\ Cardinality(Voters(BagHighestView, 3)) = 1
    /\ quorum.kind = "NoQuorum"
    /\ DOMAIN quorum.votes = {1, 2}

\* C10: only the votes of the highest view count. A bag in which a message has
\* >= normal_quorum votes in a view v and exactly one vote carries a higher
\* view v' yields NoQuorum for v' whose tally holds only the v' votes; a bag
\* with >= normal_quorum agreeing votes in the highest view v' and votes in
\* lower views yields a Quorum in v' whose nodes_without include the
\* lower-view voters.
C10_HighestViewOnly ==
    LET hv == BagHighestView
        q == quorum
        lower == {v.view : v \in {x \in bag : x.view.view < BagHighestNumber}}
    IN bag # {} =>
        /\ ( /\ Cardinality({v \in bag : v.view = hv}) = 1
             /\ \E w \in lower, m \in Msgs :
                   Cardinality(Voters(w, m)) >= normal_quorum(Len(w.members)) )
           => (q.kind = "NoQuorum" /\ q.view = hv /\ q.votes = TallyOf(hv))
        /\ ( /\ lower # {}
             /\ IsSome(slow_quorum(Len(hv.members)))
             /\ \E m \in Msgs : Cardinality(Voters(hv, m)) >= normal_quorum(Len(hv.members)) )
           => ( /\ q.kind = "Quorum"
                /\ q.view = hv
                /\ LowerViewVoters \subseteq Range(q.nodes_without) )

\* C10 failing input: three agreeing votes in the 4-member view 1 and a single
\* vote in the 2-member view 3: the call panics.
C10_Witness ==
    /\ \E m \in Msgs : Cardinality(Voters(view_4_1_normal, m)) = 3
    /\ Cardinality({v \in bag : v.view = view_2_3_normal}) = 1
    /\ Cardinality(bag) = 4
    /\ quorum.kind = "Panic"

\* C11: a node that votes for two different messages in the highest view is in
\* the voter set of both; when both messages are at the top count the result
\* is NoQuorum listing the node under both.
C11_DoubleVoterCountedTwice ==
    bag # {} =>
        LET hv == BagHighestView
            q == quorum
        IN \A n \in Nodes, a \in Msgs, b \in Msgs :
              (a # b /\ n \in Voters(hv, a) /\ n \in Voters(hv, b)) =>
                  /\ n \in tally.votes[hv][a]
                  /\ n \in tally.votes[hv][b]
                  /\ ({a, b} \subseteq TopMessages(hv)) =>
                        /\ q.kind = "NoQuorum"
                        /\ q.view = hv
                        /\ {a, b} \subseteq DOMAIN q.votes
                        /\ n \in Range(q.votes[a])
                        /\ n \in Range(q.votes[b])

\* C11 witness: the votes 1:A, 1:B, 2:A, 3:B in the 3-member view give NoQuorum
\* with A -> [1, 2] and B -> [1, 3].
C11_Witness ==
    /\ bag = {QuorumVote(1, 1, view_3_2_normal), QuorumVote(1, 2, view_3_2_normal),
              QuorumVote(2, 1, view_3_2_normal), QuorumVote(3, 2, view_3_2_normal)}
    /\ quorum = [kind |-> "NoQuorum", view |-> view_3_2_normal,
                 votes |-> (1 :> <<1, 2>>) @@ (2 :> <<1, 3>>)]

\* The votes of the set S as a sequence, in one fixed order.
RECURSIVE VoteSeq(_)
VoteSeq(S) ==
    IF S = {} THEN <<>>
    ELSE LET v == CHOOSE x \in S : TRUE IN <<v>> \o VoteSeq(S \ {v})

\* C12: find_quorum is a function of the set of distinct votes: whatever the
\* order of the votes and the repetitions of votes already present, the result
\* equals the result for the set's votes taken once in a fixed order.
C12_FunctionOfVoteSet ==
    quorum = find_quorum(VoteSeq(bag))

\* C12 failing input: nodes 1 and 2 vote message 1 in view 2 Normal, node 3 votes
\* message 1 in view 2 ViewChanging; the ViewChanging vote was read first and
\* the result is NoQuorum, while the order with the Normal votes first gives a
\* Quorum.
C12_Witness ==
    /\ bag = {QuorumVote(1, 1, view_3_2_normal), QuorumVote(2, 1, view_3_2_normal),
              QuorumVote(3, 1, view_3_2_viewchanging)}
    /\ quorum.kind = "NoQuorum"
    /\ quorum.view = view_3_2_viewchanging
    /\ find_quorum(<<QuorumVote(1, 1, view_3_2_normal), QuorumVote(2, 1, view_3_2_normal),
                     QuorumVote(3, 1, view_3_2_viewchanging)>>).kind = "Quorum"

\* C13: for a vote bag whose highest view has fewer than 3 members find_quorum
\* returns no Quorum and reports a NoQuorum value without aborting; for the
\* empty bag it returns the NoQuorum without a view (Err(None)).
C13_SmallViewIsNoQuorum ==
    /\ bag = {} => quorum = ErrNone
    /\ (bag # {} /\ Len(BagHighestView.members) < 3) => quorum.kind = "NoQuorum"

\* C13 failing input: a single vote carrying the 2-member view; the call panics.
C13_Witness ==
    /\ bag = {QuorumVote(1, 1, view_2_3_normal)}
    /\ quorum.kind = "Panic"

\* C14: for every n >= 3, f(n) = ceil((n-1)/2), fast_quorum(n) =
\* floor((3f+1)/2 + 1) and normal_quorum(n) = f+1, with (f, fast, normal) =
\* (1,3,2) for n=3, (2,4,3) for n=4 and 5, (3,6,4) for n=6 and 7, (4,7,5) for
\* n=8 and 9; for n < 3 each of the three functions returns an error.
C14_QuorumSizes ==
    LET n == cluster
        triple == <<sizes.f, sizes.fast_quorum, sizes.slow_quorum>>
    IN /\ n < 3 => triple = <<None, None, None>>
       /\ n >= 3 =>
             /\ IsSome(sizes.f) /\ IsSome(sizes.fast_quorum) /\ IsSome(sizes.slow_quorum)
             /\ LET fv == Unwrap(sizes.f)
                    fast == Unwrap(sizes.fast_quorum)
                    normal == Unwrap(sizes.slow_quorum)
                IN \* fv is the least integer with 2 * fv >= n - 1
                   /\ 2 * fv >= n - 1 /\ 2 * (fv - 1) < n - 1
                   \* fast is the greatest integer with fast <= (3 * fv + 1) / 2 + 1
                   /\ 2 * (fast - 1) <= 3 * fv + 1 /\ 2 * fast > 3 * fv + 1
                   /\ normal = fv + 1
       /\ n = 3 => triple = <<Some(1), Some(3), Some(2)>>
       /\ n \in {4, 5} => triple = <<Some(2), Some(4), Some(3)>>
       /\ n \in {6, 7} => triple = <<Some(3), Some(6), Some(4)>>
       /\ n \in {8, 9} => triple = <<Some(4), Some(7), Some(5)>>

\* C14 witness: the sizes of a cluster of 8 nodes have been derived.
C14_Witness ==
    /\ cluster = 8
    /\ sizes = [f |-> Some(4), fast_quorum |-> Some(7), slow_quorum |-> Some(5)]

\* C15 as stated: for all n >= 3, fast_quorum(n) + f(n) <= n and
\* normal_quorum(n) + f(n) <= n + 1.
C15_QuorumsFitCluster_AsStated ==
    cluster >= 3 =>
        /\ Unwrap(sizes.fast_quorum) + Unwrap(sizes.f) <= cluster
        /\ Unwrap(sizes.slow_quorum) + Unwrap(sizes.f) <= cluster + 1

\* C15 amended: for all n >= 3, normal_quorum(n) <= fast_quorum(n) <= n and
\* normal_quorum(n) + f(n) <= n + 1.
C15_QuorumsFitCluster ==
    cluster >= 3 =>
        /\ Unwrap(sizes.slow_quorum) <= Unwrap(sizes.fast_quorum)
        /\ Unwrap(sizes.fast_quorum) <= cluster
        /\ Unwrap(sizes.slow_quorum) + Unwrap(sizes.f) <= cluster + 1

\* C15 witness: the sizes of a cluster of 4 nodes, where normal_quorum + f = n + 1
\* and fast_quorum = n.
C15_Witness ==
    /\ cluster = 4
    /\ Unwrap(sizes.slow_quorum) + Unwrap(sizes.f) = 5
    /\ Unwrap(sizes.fast_quorum) = 4

\* ------------------------------------------------------------------ the client's calls
\* The requests call c has made on the network.
RequestsOf(c) == {r \in sent : r.call = c}

TooSmall == Some(ResultErr("Cluster size is too small"))

\* C16: a call of invoke_inconsistent or invoke_consistent on a client whose
\* view has fewer than 3 members returns the cluster-too-small error at once:
\* it takes no sequence number and makes no request on the network (no Propose
\* and no Finalize to any node).
C16_ClusterTooSmall ==
    \A c \in Calls :
        (calls[c].pc # "idle" /\ Len(CheckedView(calls[c].method).members) < 3) =>
            /\ calls[c].pc = "done"
            /\ calls[c].result = TooSmall
            /\ calls[c].sequence = None
            /\ RequestsOf(c) = {}
            /\ ir_client.sequence = 0

\* C16 witness: on a client with a 2-member view both methods have been called
\* and have returned the error.
C16_Witness ==
    /\ Len(ir_client.latest_view.members) = 2
    /\ \E c, d \in Calls :
          /\ calls[c].method = "invoke_inconsistent" /\ calls[c].result = TooSmall
          /\ calls[d].method = "invoke_consistent" /\ calls[d].result = TooSmall
    /\ sent = {}

\* The calls that passed the size check.
Sequenced == {c \in Calls : IsSome(calls[c].sequence)}

\* C17: whatever the interleaving of the calls of a client, the calls that pass
\* the size check get pairwise distinct sequence numbers from the one counter,
\* which starts at 0 and counts them; a call that starts after another call has
\* returned has a strictly larger sequence number.
C17_SequenceNumbers ==
    /\ \A c, d \in Sequenced : c # d => calls[c].sequence # calls[d].sequence
    /\ {Unwrap(calls[c].sequence) : c \in Sequenced} = 0..(ir_client.sequence - 1)
    /\ \A d \in Sequenced : \A c \in calls[d].after \cap Sequenced :
           Unwrap(calls[c].sequence) < Unwrap(calls[d].sequence)

\* C17 witness: two calls of different methods are in flight together, the
\* one started second holding the smaller call index.
C17_Witness ==
    /\ calls[1].pc = "proposing" /\ calls[2].pc = "finalizing"
    /\ calls[1].method # calls[2].method
    /\ calls[1].sequence = Some(1) /\ calls[2].sequence = Some(0)

\* The finalize requests call c has made.
FinalizeRequestsOf(c) ==
    {r \in RequestsOf(c) : r.method \in {"async_finalize_inconsistent",
                                         "async_finalize_consistent",
                                         "sync_finalize_consistent"}}

\* The calls of invoke_inconsistent whose propose responses formed a Quorum
\* and that are over.
QuorumCalls ==
    {c \in Calls : /\ calls[c].method = "invoke_inconsistent"
                   /\ calls[c].pc = "done"
                   /\ IsSome(calls[c].quorum)}

\* C18: when the propose responses of invoke_inconsistent form a Quorum, the
\* client sends FinalizeInconsistent with quorum.message and the (client,
\* sequence) of the proposal to exactly the members of quorum.view, and returns
\* Ok(quorum.message) without waiting for an acknowledgement.
C18_FinalizeToQuorumView ==
    \A c \in QuorumCalls :
        LET q == Unwrap(calls[c].quorum) IN
        /\ FinalizeRequestsOf(c) =
               {Request(c, "async_finalize_inconsistent", q.view.members,
                        Unwrap(calls[c].sequence), q.message)}
        /\ calls[c].result = Some(ResultOk(q.message))

\* C18 witness: the three replicas answered the proposal, the finalize was sent
\* to the members of their view, and the call ended in the abort of a replica.
C18_Witness ==
    \E c \in QuorumCalls :
        /\ Unwrap(calls[c].quorum).quorum_type = "FastQuorum"
        /\ FinalizeRequestsOf(c) # {}
        /\ calls[c].result = Some(ResultPanic)

\* The calls of invoke_inconsistent whose proposal has been answered by the
\* network (no replica aborted in it).
AnsweredCalls ==
    {c \in Calls : /\ calls[c].method = "invoke_inconsistent"
                   /\ calls[c].pc \in {"finalizing", "done"}
                   /\ Len(calls[c].responses) = Len(calls[c].nodes)
                   /\ calls[c].nodes # <<>>}

\* The nodes that answered message m in view w to the proposal of call c.
Answered(c, m, w) ==
    {v.node : v \in {x \in Range(OkVotes(calls[c].responses)) : x.message = m /\ x.view = w}}

\* The views of the successful responses to the proposal of call c.
AnsweredViews(c) == {v.view : v \in Range(OkVotes(calls[c].responses))}

HoldsInconsistentFinalize(id, sequence, m) ==
    \E k \in DOMAIN net.nodes[id].records :
        /\ k.client = ClientId /\ k.sequence = sequence /\ k.view.view = 0
        /\ net.nodes[id].records[k] = RecordValue("Finalized", "Inconsistent", m)

\* C20: with the 3 replicas of a new cluster all reachable, a call
\* invoke_inconsistent(m) of the one client returns Ok(m), and afterwards every
\* replica holds InconsistentFinalize(m) at (client, sequence) in the initial
\* view; no handler aborts on the way.
C20_HappyPath ==
    \A c \in Calls :
        (/\ calls[c].method = "invoke_inconsistent"
         /\ calls[c].pc = "done"
         /\ calls[c].nodes = <<1, 2, 3>>
         /\ calls[c].all_reachable)
        => /\ calls[c].result = Some(ResultOk(calls[c].message))
           /\ \A id \in ClusterNodes :
                 HoldsInconsistentFinalize(id, Unwrap(calls[c].sequence), calls[c].message)

\* C20 witness: the three replicas, all reachable and Normal, recorded the
\* proposal; the finalize aborted at the first of them and the call with it.
C20_Witness ==
    \E c \in QuorumCalls :
        /\ calls[c].all_reachable
        /\ calls[c].result = Some(ResultPanic)
        /\ \A id \in ClusterNodes :
              \E k \in DOMAIN net.nodes[id].records :
                  net.nodes[id].records[k] =
                      RecordValue("Tentative", "Inconsistent", calls[c].message)

\* ------------------------------------------------------------------ C21
\* The outcome of the first round of call c: find_quorum over its Ok responses.
FirstRound(c) == find_quorum(OkVotes(calls[c].responses))

\* The calls of invoke_inconsistent whose first round gave NoQuorum carrying a
\* view number above the one of the view the client was built with.
StaleCalls ==
    {c \in Returned_calls :
        /\ calls[c].method = "invoke_inconsistent"
        /\ calls[c].proposals > 0
        /\ calls[c].result # Some(ResultPanic)
        /\ FirstRound(c).kind = "NoQuorum"
        /\ FirstRound(c).view.view > 0}

\* C21: when the first round of invoke_inconsistent yields NoQuorum carrying a
\* view number above the client's latest_view, the client adopts that view (its
\* storage is told) and proposes exactly once more, against the new view.
C21_AdoptHigherViewAndRetry ==
    \A c \in StaleCalls :
        /\ ir_client.latest_view.view >= FirstRound(c).view.view
        /\ ir_client.storage_view.view >= FirstRound(c).view.view
        /\ calls[c].proposals = 2

\* A call returned Err("Quorum not found") after one round whose answers
\* carried view 1, the client still holding view 0.
C21_Witness ==
    \E c \in StaleCalls :
        /\ calls[c].result = Some(ResultErr("Quorum not found"))
        /\ calls[c].proposals = 1
        /\ ir_client.latest_view.view = 0

\* ------------------------------------------------------------------ C22
\* The calls of invoke_consistent that are over and whose propose responses
\* formed a quorum of type t.
ConsistentCalls(t) ==
    {c \in Returned_calls : /\ calls[c].method = "invoke_consistent"
                            /\ IsSome(calls[c].quorum)
                            /\ Unwrap(calls[c].quorum).quorum_type = t}

\* The entry replica id holds for (client 0, sequence), or None.
HeldEntry(id, sequence) == find_entry(net.nodes[id].records, ClientId, sequence).entry

\* C22: when the propose responses of invoke_consistent form a Fast quorum, the
\* client sends FinalizeConsistent(quorum.message) to the members of quorum.view
\* through the asynchronous finalize, and nothing else, and returns Ok(()).
C22_FastQuorumFinalizesAsync ==
    \A c \in ConsistentCalls("FastQuorum") :
        LET q == Unwrap(calls[c].quorum) IN
        /\ FinalizeRequestsOf(c) =
               {Request(c, "async_finalize_consistent", q.view.members,
                        Unwrap(calls[c].sequence), q.message)}
        /\ calls[c].result = Some(ResultOk(Unit))

\* C22 witness: the three replicas answered the proposal of a consistent call
\* and hold it as ConsistentPropose; the asynchronous finalize was sent and the
\* call ended in the abort of a replica.
C22_Witness ==
    \E c \in ConsistentCalls("FastQuorum") :
        /\ FinalizeRequestsOf(c) # {}
        /\ calls[c].result = Some(ResultPanic)
        /\ \A id \in ClusterNodes :
              /\ IsSome(HeldEntry(id, Unwrap(calls[c].sequence)))
              /\ Unwrap(HeldEntry(id, Unwrap(calls[c].sequence))).ir_operation
                     = "ConsistentPropose"

\* ------------------------------------------------------------------ C23
\* The votes of the highest view among the Ok responses to the proposal of call c.
HighestViewVotes(c) ==
    {v \in Range(OkVotes(calls[c].responses)) :
        \A w \in Range(OkVotes(calls[c].responses)) : w.view.view <= v.view.view}

\* The calls of invoke_consistent that are over, whose proposal was answered
\* by at least normal_quorum replicas of the highest view and gave no Fast
\* quorum: a Normal quorum, or NoQuorum over a split or tied vote.
DecidingCalls ==
    {c \in Returned_calls :
        /\ calls[c].method = "invoke_consistent"
        /\ HighestViewVotes(c) # {}
        /\ \A v \in HighestViewVotes(c) :
              Cardinality({w.node : w \in HighestViewVotes(c)})
                  >= normal_quorum(Len(v.view.members))
        /\ FirstRound(c).kind \in {"Quorum", "NoQuorum"}
        /\ FirstRound(c).kind = "Quorum" => FirstRound(c).quorum_type = "NormalQuorum"}

\* C23: on a Normal quorum, or on NoQuorum with at least normal_quorum
\* responses in the highest view, invoke_consistent calls the decide function
\* with the set of the messages of the highest-view votes, and what it returns
\* (one of them) is the message of the FinalizeConsistent it sends.
C23_DecideOnNormalQuorum ==
    \A c \in DecidingCalls :
        /\ calls[c].decide_choices = Some({v.message : v \in HighestViewVotes(c)})
        /\ FinalizeRequestsOf(c) # {}
        /\ \A r \in FinalizeRequestsOf(c) :
              r.message \in {v.message : v \in HighestViewVotes(c)}

\* C23 witness: a consistent call was answered by two of the three replicas, a
\* Normal quorum, and sent its FinalizeConsistent without a call of decide.
C23_Witness ==
    \E c \in DecidingCalls :
        /\ calls[c].quorum # None
        /\ Unwrap(calls[c].quorum).count = 2
        /\ calls[c].decide_choices = None
        /\ \E r \in FinalizeRequestsOf(c) : r.method = "sync_finalize_consistent"

\* ------------------------------------------------------------------ C24
\* The votes of the highest view among the Ok responses to the synchronous
\* finalize of call c.
HighestViewConfirmations(c) ==
    {v \in Range(OkVotes(calls[c].confirmations)) :
        \A w \in Range(OkVotes(calls[c].confirmations)) : w.view.view <= v.view.view}

\* At least normal_quorum replicas of the highest view acknowledged one message.
ConfirmedByQuorum(c) ==
    \E v \in HighestViewConfirmations(c) :
        Cardinality({w.node : w \in {x \in HighestViewConfirmations(c) :
                                        x.message = v.message}})
            >= normal_quorum(Len(v.view.members))

\* The calls of invoke_consistent on the non-fast path that have returned.
ReturnedNormalCalls ==
    {c \in ConsistentCalls("NormalQuorum") : calls[c].result # Some(ResultPanic)}

MergeRan == coordinator.status # "Receiving"

MergeSlots == {[client |-> c, sequence |-> q] : c \in Clients, q \in OperationSequences}

\* The entries the full peer records hold for a slot, as shipped, each with
\* its peer; and the entry of the local record.
PeerEntries(slot) ==
    {e \in [node : coordinator.full_records,
            op : FirstSlotOperations \cup SecondSlotOperations] :
        e.op \in coordinator.shipped[e.node] /\ Slot(e.op) = slot}

LocalEntries(slot) ==
    {EntryOperation(k, coordinator.records[k]) :
        k \in {x \in DOMAIN coordinator.records : x.client = slot.client
                                                  /\ x.sequence = slot.sequence}}

\* The messages the peer records and the local record hold for a slot in a variant.
HeldMessages(slot, variant) ==
    {e.op.message : e \in {x \in PeerEntries(slot) : x.op.ir_operation = variant}}
        \cup {op.message : op \in {x \in LocalEntries(slot) : x.ir_operation = variant}}

\* The main record holds for the slot the variant with one of the messages.
MergedAs(slot, variant, messages) ==
    /\ slot \in DOMAIN coordinator.main_record
    /\ coordinator.main_record[slot].ir_operation = variant
    /\ coordinator.main_record[slot].message \in messages

\* C25: after the merge, for every (client, sequence): if a full peer record or
\* the local record holds InconsistentFinalize, the main entry is
\* InconsistentFinalize with that message; otherwise, if one holds
\* ConsistentFinalize, the main entry is ConsistentFinalize with that message.
C25_FinalizedPrecedence ==
    MergeRan =>
        \A slot \in MergeSlots :
            /\ HeldMessages(slot, "InconsistentFinalize") # {} =>
                  MergedAs(slot, "InconsistentFinalize",
                           HeldMessages(slot, "InconsistentFinalize"))
            /\ (HeldMessages(slot, "InconsistentFinalize") = {}
                    /\ HeldMessages(slot, "ConsistentFinalize") # {}) =>
                  MergedAs(slot, "ConsistentFinalize", HeldMessages(slot, "ConsistentFinalize"))

\* C25 witness: the merge ran to its end over a peer record that holds
\* InconsistentFinalize for slot (0, 1) behind an entry for slot (0, 0), and the
\* main record has no entry for slot (0, 1).
C25_Witness ==
    /\ coordinator.status = "Merged"
    /\ \E n \in coordinator.full_records :
          /\ Operation("InconsistentFinalize", 0, 1, 1) \in coordinator.shipped[n]
          /\ Cardinality(coordinator.shipped[n]) = 2
    /\ [client |-> 0, sequence |-> 1] \notin DOMAIN coordinator.main_record

\* The peers whose record holds the Propose of the class with message m for the slot.
Proposers(slot, variant, m) ==
    {e.node : e \in {x \in PeerEntries(slot) : x.op.ir_operation = variant
                                               /\ x.op.message = m}}

\* Every peer entry of the slot is the Propose variant, the local record holds
\* nothing else for it, and m is the message of at least normal_quorum peers.
TalliedTo(slot, variant, m) ==
    /\ PeerEntries(slot) # {}
    /\ \A e \in PeerEntries(slot) : e.op.ir_operation = variant
    /\ \A op \in LocalEntries(slot) : op.ir_operation = variant
    /\ Cardinality(Proposers(slot, variant, m)) >= normal_quorum(Len(merge_view.members))

\* C26: when every peer entry of a slot is ConsistentPropose (InconsistentPropose),
\* one vote is counted per peer, and a message that reaches normal_quorum makes
\* the main entry ConsistentFinalize (InconsistentFinalize) with that message,
\* also for a slot the local record does not hold.
C26_TentativeTally ==
    MergeRan =>
        \A slot \in MergeSlots, m \in OpMsgs :
            /\ TalliedTo(slot, "ConsistentPropose", m) =>
                  MergedAs(slot, "ConsistentFinalize", {m})
            /\ TalliedTo(slot, "InconsistentPropose", m) =>
                  MergedAs(slot, "InconsistentFinalize", {m})

\* C26 witness: both peers hold ConsistentPropose with message 1 for slot
\* (0, 0), the local record holds nothing, the merge ran to its end and the main
\* record is empty.
C26_Witness ==
    /\ coordinator.status = "Merged"
    /\ coordinator.records = EmptyMap
    /\ TalliedTo([client |-> 0, sequence |-> 0], "ConsistentPropose", 1)
    /\ coordinator.main_record = EmptyMap

\* The storage of the coordinator as it was when the merge began.
BeforeMerge ==
    [coordinator EXCEPT !.main_record = EmptyMap, !.unresolved = EmptyMap,
                        !.status = "Receiving"]

\* C27: the main record the merge leaves is the same for every order in which
\* the full peers are listed and their operations iterated.
C27_MergeDeterminism ==
    MergeRan =>
        \A full_record_members \in Orders(coordinator.full_records),
           iteration \in Iterations(coordinator) :
            merge(BeforeMerge, full_record_members, merge_view, iteration).main_record
                = coordinator.main_record

\* C27 witness: the two peers hold InconsistentFinalize for slot (0, 0) with
\* messages 1 and 2, and the merge ran to its end with message 2 in the main record.
C27_Witness ==
    /\ coordinator.status = "Merged"
    /\ coordinator.shipped[2] = {Operation("InconsistentFinalize", 0, 0, 1)}
    /\ coordinator.shipped[3] = {Operation("InconsistentFinalize", 0, 0, 2)}
    /\ MergedAs([client |-> 0, sequence |-> 0], "InconsistentFinalize", {2})

\* ------------------------------------------------------------------ C28
\* The view numbers under which the replica has recorded operations.
RecordedViewNumbers == {k.view.view : k \in DOMAIN records}

handler_observing(op, v, recs, client_id, operation_sequence, message, highest_observed_view) ==
    CASE op = "ProposeInconsistent" ->
             propose_inconsistent(v, recs, client_id, operation_sequence, message)
      [] op = "FinalizeInconsistent" ->
             finalize_inconsistent(v, recs, client_id, operation_sequence, message)
      [] op = "ProposeConsistent" ->
             propose_consistent(v, recs, client_id, operation_sequence, message)
      [] OTHER ->
             finalize_consistent(v, recs, client_id, operation_sequence, message)

HandleObserving(op, client, sequence, message, highest_observed_view, h) ==
    /\ records' = h.records
    /\ last' = [Returned(op, client, sequence, message, Unwrap(view), h)
                    EXCEPT !.observed = Some(highest_observed_view)]
    /\ UNCHANGED <<view, current_view>>

\* A Propose or Finalize that carries the view its sender has observed.
CallObserving(op, client, sequence, message, highest_observed_view) ==
    /\ IsSome(view)
    /\ HandleObserving(op, client, sequence, message, highest_observed_view,
                       handler_observing(op, Unwrap(view), records, client, sequence, message,
                                         highest_observed_view))

\* The replica under calls that carry an observed view, view changes and the
\* end of catch-up.
NextObserving ==
    /\ \/ \E op \in Handlers, c \in Clients, q \in OperationSequences, m \in OpMsgs,
             w \in StorableViews : CallObserving(op, c, q, m, w)
       \/ EnterNormal
       \/ BeginViewChange
    /\ UNCHANGED <<qvars, svars, cvars, mvars>>
SpecObserving == Init /\ [][NextObserving]_vars

\* The call that has just returned carried an observed view with a number
\* above the one of the view the replica was in.
ObservedHigher ==
    /\ IsSome(last.observed)
    /\ IsSome(last.called_in)
    /\ Unwrap(last.observed).view > Unwrap(last.called_in).view

\* C29: a Propose or Finalize whose observed_view has a higher number than the
\* replica's view moves the replica to ViewChanging towards that view, returns
\* the new view, and records nothing under the old view.
C29_HigherObservedViewChangesView ==
    ObservedHigher =>
        /\ IsSome(view)
        /\ Unwrap(view).state = "ViewChanging"
        /\ Unwrap(view).view = Unwrap(last.observed).view
        /\ last.view = view
        /\ ~last.wrote

\* C29 witness: a replica in view 0, Normal, was given a ProposeInconsistent
\* that observed view 1; it recorded the operation, answered with view 0 and is
\* still in view 0, Normal.
C29_Witness ==
    /\ ObservedHigher
    /\ last.op = "ProposeInconsistent"
    /\ last.status = "Ok"
    /\ last.wrote
    /\ last.view = Some(View(0, Members, "Normal"))
    /\ view = Some(View(0, Members, "Normal"))

\* ------------------------------------------------------------------ idempotence
RecordOperations ==
    {"record_tentative_inconsistent", "record_tentative_consistent",
     "promote_finalized_inconsistent", "promote_finalized_consistent"}

\* The storage call of a record operation.
ApplyRecord(op, recs, c, q, v, m) ==
    CASE op = "record_tentative_inconsistent" ->
             record_tentative_inconsistent_and_evaluate(recs, c, q, v, m)
      [] op = "record_tentative_consistent" ->
             record_tentative_and_exec_consistent(recs, c, q, v, m)
      [] op = "promote_finalized_inconsistent" ->
             promote_finalized_and_exec_inconsistent(recs, c, q, v, m)
      [] OTHER ->
             promote_finalized_and_reconcile_consistent(recs, c, q, v, m)

\* After a first application that succeeded, the same call succeeds and leaves
\* the store of the first.
SecondIsNoop(op, first, c, q, v, m) ==
    first.status = "Ok" =>
        /\ ApplyRecord(op, first.records, c, q, v, m).status = "Ok"
        /\ ApplyRecord(op, first.records, c, q, v, m).records = first.records

IdempotentOn(ops) ==
    IsSome(view) =>
        \A op \in ops, c \in Clients, q \in OperationSequences, m \in OpMsgs :
            SecondIsNoop(op, ApplyRecord(op, records, c, q, Unwrap(view), m),
                         c, q, Unwrap(view), m)

\* C30: each of the four record operations, applied a second time with the
\* same client, sequence, view and message, succeeds and leaves the record
\* store as the first application left it.
C30_RecordOperationsIdempotent == IdempotentOn(RecordOperations)

\* C30 witness: a ProposeConsistent has just panicked at a replica whose store
\* holds the tentative consistent entry of the same client, sequence, view and
\* message, the one an earlier identical ProposeConsistent wrote.
C30_Witness ==
    /\ last.op = "ProposeConsistent"
    /\ last.status = "Panic"
    /\ IsSome(last.called_in)
    /\ RecordKey(last.client, last.sequence, Unwrap(last.called_in)) \in DOMAIN records
    /\ records[RecordKey(last.client, last.sequence, Unwrap(last.called_in))]
           = RecordValue("Tentative", "Consistent", last.message)
    /\ Cardinality(FoundEntries(records, last.client, last.sequence)) = 1

\* ------------------------------------------------------------------ the probed nodes
\* The nodes a client probes in addition to the members of its view
\* (add_nodes_to_probe): node 4 is no member of view_3_2_normal.
AdditionalNodes == {4}

\* The votes of a call whose answers come from the members of view 2 and from
\* the probed node, all of them in view 2.
ProbedVotes ==
    {QuorumVote(n, m, view_3_2_normal) : n \in Nodes \cup AdditionalNodes, m \in {1, 2}}

NextProbedVotes ==
    (\E item \in ProbedVotes : CastVote(item))
    /\ UNCHANGED <<rvars, svars, cvars, mvars>>
SpecProbed == Init /\ [][NextProbedVotes]_vars

\* The voters of a (message -> voters) map without those outside members, and
\* without the messages left with no voter.
MemberVoters(by_message, members) ==
    [m \in {x \in DOMAIN by_message : by_message[x] \cap members # {}}
        |-> by_message[m] \cap members]

\* The locals of find_quorum had the votes of the nodes outside the highest
\* view not been cast.
MembersOnly(t) ==
    IF ~IsSome(t.highest_view) THEN t
    ELSE LET hv == Unwrap(t.highest_view)
             kept == MemberVoters(t.votes[hv], Range(hv.members))
         IN IF DOMAIN kept = {} THEN EmptyTally
            ELSE [votes |-> (hv :> kept),
                  highest_view |-> t.highest_view,
                  all_nodes |-> t.all_nodes \cap Range(hv.members)]

\* C31: the participants of a quorum are members of its view, and the votes of
\* nodes outside the view change nothing: find_quorum returns what it returns
\* on the votes of the members alone.
C31_QuorumOnlyFromMembers ==
    /\ quorum.kind = "Quorum" =>
           Range(quorum.nodes_with) \subseteq Range(quorum.view.members)
    /\ quorum = QuorumOfTally(MembersOnly(tally))

\* C31 witness: the probed node is listed among the participants of a quorum
\* that the votes of the members alone do not reach.
C31_Witness ==
    /\ quorum.kind = "Quorum"
    /\ 4 \in Range(quorum.nodes_with)
    /\ QuorumOfTally(MembersOnly(tally)).kind = "NoQuorum"

\* ------------------------------------------------------------------ promotion
\* The Finalize handler that has just returned was called in a Normal view on a
\* slot that was absent (if absent) or held the proposal of its class, recorded
\* in the view of the call.
FinalizedOver(op, propose, absent) ==
    /\ last.op = op
    /\ IsSome(last.called_in)
    /\ Unwrap(last.called_in).state = "Normal"
    /\ IF absent THEN last.found = None
       ELSE /\ IsSome(last.found)
            /\ Unwrap(last.found).ir_operation = propose
            /\ Unwrap(last.found).view = Unwrap(last.called_in)

\* The slot of the last call holds, in the view of the call, the finalized
\* entry of the class with the message of the call, and the call did not abort.
PromotedTo(operation_type) ==
    /\ last.status = "Ok"
    /\ RecordKey(last.client, last.sequence, Unwrap(last.called_in)) \in DOMAIN records
    /\ records[RecordKey(last.client, last.sequence, Unwrap(last.called_in))]
           = RecordValue("Finalized", operation_type, last.message)

PromotionPostState(absent) ==
    /\ FinalizedOver("FinalizeInconsistent", "InconsistentPropose", absent)
           => PromotedTo("Inconsistent")
    /\ FinalizedOver("FinalizeConsistent", "ConsistentPropose", absent)
           => PromotedTo("Consistent")

\* C32: a FinalizeInconsistent on a slot that is absent or holds the
\* InconsistentPropose of the same view leaves the slot InconsistentFinalize
\* with the finalize message, a FinalizeConsistent on a slot that is absent or
\* holds ConsistentPropose leaves it ConsistentFinalize, and the storage aborts
\* in neither case.
C32_PromotionPostState == PromotionPostState(TRUE) /\ PromotionPostState(FALSE)

\* C32 witness: a FinalizeInconsistent found the InconsistentPropose of its
\* slot, recorded in the view of the call, and aborted; the slot is tentative.
C32_Witness ==
    /\ FinalizedOver("FinalizeInconsistent", "InconsistentPropose", FALSE)
    /\ last.status = "Panic"
    /\ records[RecordKey(last.client, last.sequence, Unwrap(last.called_in))].state
           = "Tentative"

\* ------------------------------------------------------------------ reconciliation
\* What exec_consistent returned when the entry found in the slot was proposed:
\* None if the slot held no proposal.
ProposedEvaluation(found) ==
    IF IsSome(found) /\ Unwrap(found).ir_operation = "ConsistentPropose"
    THEN Some(exec_consistent(Unwrap(found).message))
    ELSE None

\* C33: a FinalizeConsistent handled on a slot that is absent or holds the
\* proposal calls reconcile_consistent, once, with the evaluation of the
\* proposal (None if there was none) and the decided message, and returns what
\* reconcile_consistent returned.
C33_ReconcileWithPreviousEvaluation ==
    \A absent \in BOOLEAN :
        FinalizedOver("FinalizeConsistent", "ConsistentPropose", absent) =>
            /\ last.status = "Ok"
            /\ last.exec = "reconcile_consistent"
            /\ last.previous = ProposedEvaluation(last.found)
            /\ last.value = Some(reconcile_consistent(last.previous, last.message))

\* C33 witness: a FinalizeConsistent found the proposal of its slot and aborted
\* before any call of the executor.
C33_Witness ==
    /\ FinalizedOver("FinalizeConsistent", "ConsistentPropose", FALSE)
    /\ last.status = "Panic"
    /\ last.exec = "none"
    /\ last.value = None

\* ------------------------------------------------------------------ execution of finalized operations
\* The FinalizeInconsistent that has just returned found its slot finalized:
\* an earlier FinalizeInconsistent of the slot wrote the entry and applied
\* exec_inconsistent (no other call writes an InconsistentFinalize entry).
FinalizeInconsistentRedelivered ==
    /\ last.op = "FinalizeInconsistent"
    /\ IsSome(last.found)
    /\ Unwrap(last.found).ir_operation = "InconsistentFinalize"

\* C34: exec_inconsistent is applied at most once to a slot: a
\* FinalizeInconsistent delivered again for a slot that is already finalized
\* does not apply it a second time.
C34_ExecInconsistentAtMostOnce ==
    FinalizeInconsistentRedelivered => last.exec # "exec_inconsistent"

\* C34 witness: a FinalizeInconsistent delivered for a slot that was finalized
\* in the same view returned Ok after applying exec_inconsistent again.
C34_Witness ==
    /\ FinalizeInconsistentRedelivered
    /\ Unwrap(last.found).view = Unwrap(last.called_in)
    /\ last.status = "Ok"
    /\ last.exec = "exec_inconsistent"

\* ------------------------------------------------------------------ the undecided slots of a merge
\* Every entry the full peer records and the local record hold for the slot is
\* the Propose variant, there is one, and no message reaches normal_quorum.
Undecided(slot, variant) ==
    /\ HeldMessages(slot, variant) # {}
    /\ \A e \in PeerEntries(slot) : e.op.ir_operation = variant
    /\ \A op \in LocalEntries(slot) : op.ir_operation = variant
    /\ \A m \in OpMsgs :
          Cardinality(Proposers(slot, variant, m)) < normal_quorum(Len(merge_view.members))

\* The lowest of a set of messages.
LowestMessage(messages) == CHOOSE m \in messages : \A o \in messages : m <= o

\* C35: the merge does not abort on a slot without a quorum: it runs to its
\* end, and such a slot is resolved by then, a consistent one to one of the
\* proposed messages (the decide function's choice), an inconsistent one to the
\* lowest proposed message.
C35_UndecidedResolvedInSecondPass ==
    /\ coordinator.status # "Panic"
    /\ coordinator.status = "Merged" =>
          \A slot \in MergeSlots :
              /\ Undecided(slot, "ConsistentPropose") =>
                    MergedAs(slot, "ConsistentFinalize",
                             HeldMessages(slot, "ConsistentPropose"))
              /\ Undecided(slot, "InconsistentPropose") =>
                    MergedAs(slot, "InconsistentFinalize",
                             {LowestMessage(HeldMessages(slot, "InconsistentPropose"))})

\* C35 witness: the merge aborted with the proposals of slot (0, 0), one of a
\* peer and one of the local record, still among the undecided operations.
C35_Witness ==
    /\ coordinator.status = "Panic"
    /\ Undecided([client |-> 0, sequence |-> 0], "ConsistentPropose")
    /\ [client |-> 0, sequence |-> 0] \in DOMAIN coordinator.unresolved
    /\ [client |-> 0, sequence |-> 0] \notin DOMAIN coordinator.main_record

\* ------------------------------------------------------------------ the coverage of a merge
\* The slot has an entry in the main record or is among the undecided ones.
Covered(slot) ==
    \/ slot \in DOMAIN coordinator.main_record
    \/ slot \in DOMAIN coordinator.unresolved

\* C36: after a merge that ran to its end, every (client, sequence) that a full
\* peer record holds, whether as its first operation or a later one, has an
\* entry in the main record or is in the unresolved set.
C36_MergeCoversWholeRecord ==
    coordinator.status = "Merged" =>
        \A slot \in MergeSlots : PeerEntries(slot) # {} => Covered(slot)

\* C36 witness: peer 2 shipped finalized operations for the slots (0, 0) and
\* (0, 1), peer 3 shipped nothing, the merge ran to its end, and only one of
\* the two slots is covered.
C36_Witness ==
    /\ coordinator.status = "Merged"
    /\ \E m \in OpMsgs :
          coordinator.shipped[2] = {Operation("InconsistentFinalize", 0, 0, m),
                                    Operation("InconsistentFinalize", 0, 1, 1)}
    /\ coordinator.shipped[3] = {}
    /\ Cardinality({slot \in MergeSlots : Covered(slot)}) = 1

\* ------------------------------------------------------------------ the start of a merge
\* The peers whose full record the coordinator holds are fewer than f + 1.
TooFewFullRecords ==
    Cardinality(coordinator.full_records) < Unwrap(slow_quorum(Len(merge_view.members)))

\* C37: process_incoming_operations starts the merge of a view only with the
\* full records of at least f + 1 peers, f being that of the members of the
\* view; while the full records are fewer, no call has written a main-record
\* entry or an undecided operation.
C37_MergeNeedsFullRecordQuorum ==
    /\ MergeRan => ~TooFewFullRecords
    /\ TooFewFullRecords =>
           /\ coordinator.main_record = EmptyMap
           /\ coordinator.unresolved = EmptyMap

\* C37 witness: the second full record has arrived, the merge has run and has
\* written a main-record entry for an operation of the first record.
C37_Witness ==
    /\ coordinator.status = "Merged"
    /\ Cardinality(coordinator.full_records) = 2
    /\ coordinator.shipped[3] = {}
    /\ coordinator.shipped[2] # {}
    /\ coordinator.main_record # EmptyMap

\* ------------------------------------------------------------------ the shadow logs
\* The shadow log of peer n holds, for every operation n shipped, an entry of
\* the variant and message of the operation.
ShadowLogAsShipped(n) ==
    coordinator.shipped[n] \subseteq
        {EntryOperation(k, coordinator.received_record_logs[n][k]) :
            k \in DOMAIN coordinator.received_record_logs[n]}

\* A Propose that arrives from peer n for a slot leaves every finalized entry
\* of the shadow log of n as it is.
FinalizedKept(n, op) ==
    \A k \in DOMAIN coordinator.received_record_logs[n] :
        coordinator.received_record_logs[n][k].state = "Finalized" =>
            add_peer_view_change_operation(coordinator, n, merge_view, op)
                    .received_record_logs[n][k]
                = coordinator.received_record_logs[n][k]

\* C38: the shadow log of a peer holds each operation the peer shipped in the
\* class and the persistence state it was shipped in (a ConsistentFinalize as
\* ConsistentFinalize), and a finalized entry of a shadow log is not replaced
\* by a Propose.
C38_ShadowLogPreservesShipped ==
    \A n \in Peers :
        /\ ShadowLogAsShipped(n)
        /\ \A op \in {x \in FirstSlotOperations \cup SecondSlotOperations :
                         x.ir_operation \in {"InconsistentPropose", "ConsistentPropose"}} :
               FinalizedKept(n, op)

\* C38 witness: peer 2 shipped ConsistentFinalize for slot (0, 0) and its shadow
\* log holds the slot as a tentative consistent entry.
C38_Witness ==
    /\ Operation("ConsistentFinalize", 0, 0, 1) \in coordinator.shipped[2]
    /\ RecordKey(0, 0, merge_view) \in DOMAIN coordinator.received_record_logs[2]
    /\ coordinator.received_record_logs[2][RecordKey(0, 0, merge_view)]
           = RecordValue("Tentative", "Consistent", 1)

\* ------------------------------------------------------------------ maintenance
\* perform_maintenance: the body is empty; the model notes that it has run.
perform_maintenance ==
    /\ IsSome(view)
    /\ last' = [Idle EXCEPT !.op = "perform_maintenance"]
    /\ UNCHANGED <<view, current_view, records>>

\* A server that runs: the four handlers, the maintenance loop, and the
\* records of its peers arriving and being merged. No statement of the server
\* assigns its view.
NextMaintenance ==
    \/ /\ \/ \E c \in Clients, q \in OperationSequences, m \in OpMsgs :
                \/ ProposeInconsistent(c, q, m)
                \/ FinalizeInconsistent(c, q, m)
                \/ ProposeConsistent(c, q, m)
                \/ FinalizeConsistent(c, q, m)
          \/ perform_maintenance
       /\ UNCHANGED <<qvars, svars, cvars, mvars>>
    \/ NextMerge /\ UNCHANGED <<rvars, qvars, svars, cvars>>

\* The server scheduled fairly: while a step of it can be taken, one is taken.
SpecMaintenance ==
    /\ Init
    /\ [][NextMaintenance]_vars
    /\ WF_vars(NextMaintenance)

\* The replica is switched on and its view is in the state.
InState(state) == IsSome(view) /\ Unwrap(view).state = state

\* C39: a replica in Recovery, or one whose merge has completed, eventually has
\* its view in state Normal.
C39_EventuallyNormal ==
    (InState("Recovery") \/ (IsSome(view) /\ coordinator.status = "Merged"))
        ~> InState("Normal")

\* C39 witness: the merge has run to its end with a main-record entry, the
\* maintenance loop has run after it, and the replica is still in Recovery.
C39_Witness ==
    /\ coordinator.status = "Merged"
    /\ coordinator.main_record # EmptyMap
    /\ last.op = "perform_maintenance"
    /\ InState("Recovery")

\* ------------------------------------------------------------------ the two sets of size functions
\* Both sets of size functions over every cluster from MINIMUM_CLUSTER_SIZE
\* to MaxClusterSize.
NextBothSizes ==
    (\E n \in MINIMUM_CLUSTER_SIZE..MaxClusterSize : DeriveBothSizes(n))
    /\ UNCHANGED <<rvars, qvars, cvars, mvars>>
SpecBothSizes == Init /\ [][NextBothSizes]_vars

\* floor(3f / 2) + 1
GlossaryFastQuorum(failures) == ((3 * failures) \div 2) + 1

\* C40: for every cluster of at least 3 nodes the fast quorum of the quorum
\* engine equals floor(3f / 2) + 1 for the engine's f and equals the fast
\* quorum of the client module, and f and the normal quorum of the client
\* module equal those of the quorum engine.
C40_QuorumSizesConsistent ==
    IsSome(client_sizes) =>
        /\ Unwrap(sizes.fast_quorum) = GlossaryFastQuorum(Unwrap(sizes.f))
        /\ Unwrap(sizes.fast_quorum) = Unwrap(client_sizes).fast_quorum
        /\ Unwrap(sizes.f) = Unwrap(client_sizes).f
        /\ Unwrap(sizes.slow_quorum) = Unwrap(client_sizes).slow_quorum

\* C40 witness: for a cluster of 3 the quorum engine has f = 1 and a fast
\* quorum of 3, the client module f = 1 and a fast quorum of 2.
C40_Witness ==
    /\ cluster = 3
    /\ IsSome(client_sizes)
    /\ sizes.f = Some(1)
    /\ sizes.fast_quorum = Some(3)
    /\ Unwrap(client_sizes).f = 1
    /\ Unwrap(client_sizes).fast_quorum = 2

====
